---- MODULE Spec2Model ----
(***************************************************************************)
(* A model of the mini_tcp transport of NetCommExp: the wrapping sequence  *)
(* numbers, the byte stream, the reassembler, the sender half, the         *)
(* receiver half and the connection that glues them.                       *)
(*                                                                         *)
(* Every component is a record and every method is an operator from the    *)
(* component (and its arguments) to the component after the call.  A       *)
(* method that raises stops where the Python raises: the assignments made  *)
(* before the raise are kept and the result says raised = TRUE.            *)
(*                                                                         *)
(* Sequence numbers are WrapBits wide instead of 32 bits wide; absolute    *)
(* sequence numbers are unbounded naturals.                                *)
(***************************************************************************)
EXTENDS Integers, Sequences, FiniteSets, TLC

\* ------------------------------------------------------------------------
\* Bounds of the model
\* ------------------------------------------------------------------------
\* width of a wire sequence number (32 in the code)
WrapBits == 3
\* bytes an application writes to an outbound stream
MaxWrite == 3
\* absolute sequence numbers explored by the sender
MaxSeqno == 6
\* consecutive timeouts explored
MaxRetx == 2
\* largest window an arbitrary peer advertises
MaxWindow == 2
\* bytes a receiver pushes into its inbound stream
MaxPushed == 5
\* longest payload an arbitrary peer sends
MaxPayload == 2
\* bytes a receiver holds in its reassembler and its inbound stream
MaxHeld == 3
\* retransmissions in a row up to which the timer of RetxSpec runs
MaxAttempts == 12
\* the largest capacity of the output stream of a Reassembler on its own
MaxCapacity == 4
\* the largest first index and the largest length of an inserted segment
MaxIndex == 4
MaxSegment == 3
\* bytes each application of SocketSpec hands to its connection
MaxTalk == 2
\* the largest capacity of a ByteStream on its own, and the bytes pushed
\* into it
MaxRing == 3
MaxStreamed == 6
\* the checkpoints of an unwrap go up to MaxLaps times round the wire
\* sequence numbers
MaxLaps == 3

\* ------------------------------------------------------------------------
\* Program constants
\* ------------------------------------------------------------------------
MAX_PAYLOAD_SIZE == 1000
MAX_RETX_ATTEMPTS == 10
MAX_WINDOW_SIZE == 65535
\* an absent ackno (Optional[Wrap32] = None)
None == -1

Modulus == 2 ^ WrapBits          \* 1 << 32 in the code
MAX_SEQNO == Modulus - 1         \* 2**32 - 1 in the code

Min(a, b) == IF a <= b THEN a ELSE b
Max(a, b) == IF a >= b THEN a ELSE b

\* ------------------------------------------------------------------------
\* Wrap32 (wrapping_intergers.py)
\* ------------------------------------------------------------------------
Wrap32_wrap(n, zero_point) == (zero_point + (n % Modulus)) % Modulus

Wrap32_add(raw_value, n) == (raw_value + (n % Modulus)) % Modulus

\* unwrap that stays in the first lap
Wrap32_unwrap_low(raw_value, zero_point, checkpoint) ==
    (raw_value - zero_point + Modulus) % Modulus

Wrap32_unwrap(raw_value, zero_point, checkpoint) ==
    LET n_minus_isn == raw_value - zero_point
        tmp0 == IF n_minus_isn < 0 THEN n_minus_isn + Modulus ELSE n_minus_isn
        \* tmp |= ((checkpoint >> 32) << 32): tmp0 < Modulus, so the OR adds
        tmpHi == tmp0 + (checkpoint \div Modulus) * Modulus
        \* while tmp <= checkpoint: tmp += 1 << 32  (at most one round)
        tmp == IF tmpHi <= checkpoint THEN tmpHi + Modulus ELSE tmpHi
        tmp1 == tmp - Modulus
    IN  IF tmp0 >= checkpoint THEN tmp0
        ELSE IF checkpoint - tmp1 < tmp - checkpoint THEN tmp1 ELSE tmp

\* ------------------------------------------------------------------------
\* ByteStream (util/byte_stream.py); buffer is the content of the ring
\* buffer between its out and in pointers
\* ------------------------------------------------------------------------
ByteStream(capacity) ==
    [capacity |-> capacity, buffer |-> <<>>, closed |-> FALSE,
     bytes_pushed |-> 0, bytes_popped |-> 0]

is_closed(st) == st.closed
bytes_buffered(st) == Len(st.buffer)
available_capacity(st) == st.capacity - Len(st.buffer)
is_finished(st) == is_closed(st) /\ st.bytes_popped = st.bytes_pushed
\* error is the empty dict and nothing assigns it: has_error() is falsy
has_error(st) == FALSE

ByteStream_push(st, data) ==
    IF is_closed(st) \/ Len(data) > available_capacity(st)
    THEN [stream |-> st, raised |-> TRUE]
    ELSE [stream |-> [st EXCEPT !.buffer = @ \o data,
                               !.bytes_pushed = @ + Len(data)],
          raised |-> FALSE]

ByteStream_close(st) == [st EXCEPT !.closed = TRUE]

ByteStream_peek(st, n) ==
    IF is_finished(st)
    THEN [data |-> <<>>, raised |-> TRUE]
    ELSE [data |-> SubSeq(st.buffer, 1, Min(n, Len(st.buffer))), raised |-> FALSE]

ByteStream_pop(st, n) ==
    IF is_finished(st)
    THEN [stream |-> st, data |-> <<>>, raised |-> TRUE]
    ELSE LET k == Min(n, Len(st.buffer))
         IN  [stream |-> [st EXCEPT !.buffer = SubSeq(@, k + 1, Len(@)),
                                    !.bytes_popped = @ + k],
              data |-> SubSeq(st.buffer, 1, k), raised |-> FALSE]

\* ------------------------------------------------------------------------
\* RingBuffer (util/ringbuffer.py) and the ByteStream built on it, pointer
\* by pointer; buffer is the storage, index 0 .. size - 1
\* ------------------------------------------------------------------------
RECURSIVE RoundUp(_, _)
RoundUp(power, n) == IF power < n THEN RoundUp(power * 2, n) ELSE power

round_up_power_of_two(n) == IF n <= 0 THEN 1 ELSE RoundUp(1, n)

RingBuffer(size) ==
    [size |-> round_up_power_of_two(size),
     buffer |-> [i \in 0 .. round_up_power_of_two(size) - 1 |-> 0],
     in_ptr |-> 0, out_ptr |-> 0]

\* val & (size - 1), size a power of two
mask(rb, val) == val % rb.size
RingBuffer_len(rb) == rb.in_ptr - rb.out_ptr
avail(rb) == rb.size - (rb.in_ptr - rb.out_ptr)

\* only the slice up to the end of the storage
Copied_to_end(rb, data, in_pos, to_end) ==
    [i \in 0 .. rb.size - 1 |->
        IF in_pos <= i /\ i < in_pos + to_end THEN data[i - in_pos + 1]
        ELSE rb.buffer[i]]

\* the two slice assignments of push: to_end bytes from in_pos, the rest
\* from the start of the storage
Copied(rb, data, in_pos, to_end) ==
    [i \in 0 .. rb.size - 1 |->
        IF i < Len(data) - to_end THEN data[to_end + i + 1]
        ELSE IF in_pos <= i /\ i < in_pos + to_end THEN data[i - in_pos + 1]
        ELSE rb.buffer[i]]

RingBuffer_push(rb, data) ==
    IF Len(data) > avail(rb)
    THEN [ring |-> rb, raised |-> TRUE]
    ELSE [ring |-> [rb EXCEPT
                       !.buffer = Copied(rb, data, mask(rb, rb.in_ptr),
                                         Min(Len(data),
                                             rb.size - mask(rb, rb.in_ptr))),
                       !.in_ptr = @ + Len(data)],
          raised |-> FALSE]

\* the two slice reads of pop and peek
Slices(rb, length, out_pos, to_end) ==
    [j \in 1 .. length |->
        IF j <= to_end THEN rb.buffer[out_pos + j - 1]
        ELSE rb.buffer[j - to_end - 1]]

RingBuffer_peek(rb, length) ==
    Slices(rb, Min(length, RingBuffer_len(rb)), mask(rb, rb.out_ptr),
           Min(Min(length, RingBuffer_len(rb)), rb.size - mask(rb, rb.out_ptr)))

RingBuffer_pop(rb, length) ==
    [ring |-> [rb EXCEPT !.out_ptr = @ + Min(length, RingBuffer_len(rb))],
     data |-> RingBuffer_peek(rb, length)]

RingStream(capacity) ==
    [capacity |-> capacity, buffer |-> RingBuffer(capacity), closed |-> FALSE,
     bytes_pushed |-> 0, bytes_popped |-> 0]

ring_buffered(st) == RingBuffer_len(st.buffer)
ring_capacity_rounded(st) == avail(st.buffer)
ring_capacity(st) == st.capacity - RingBuffer_len(st.buffer)
ring_finished(st) == st.closed /\ st.bytes_popped = st.bytes_pushed

RingStream_push(st, data) ==
    IF st.closed \/ Len(data) > ring_capacity(st)
    THEN [stream |-> st, raised |-> TRUE]
    ELSE \* buffer.push raises before the count is touched
         IF RingBuffer_push(st.buffer, data).raised
         THEN [stream |-> st, raised |-> TRUE]
         ELSE [stream |-> [st EXCEPT
                              !.buffer = RingBuffer_push(@, data).ring,
                              !.bytes_pushed = @ + Len(data)],
               raised |-> FALSE]

RingStream_close(st) == [st EXCEPT !.closed = TRUE]

RingStream_peek(st, n) ==
    IF ring_finished(st)
    THEN [data |-> <<>>, raised |-> TRUE]
    ELSE [data |-> RingBuffer_peek(st.buffer, Min(n, ring_buffered(st))),
          raised |-> FALSE]

RingStream_pop(st, n) ==
    IF ring_finished(st)
    THEN [stream |-> st, data |-> <<>>, raised |-> TRUE]
    ELSE [stream |-> [st EXCEPT
                         !.buffer = RingBuffer_pop(@, Min(n, ring_buffered(st))).ring,
                         !.bytes_popped = @ + Min(n, ring_buffered(st))],
          data |-> RingBuffer_pop(st.buffer, Min(n, ring_buffered(st))).data,
          raised |-> FALSE]

\* a stream under test with what went through it: the bytes pushed and
\* popped so far, the argument of the last call and the bytes it returned
Through(st) ==
    [stream |-> st, pushed |-> <<>>, popped |-> <<>>, n |-> 0, data |-> <<>>]

\* ------------------------------------------------------------------------
\* Messages (tcp_message.py)
\* ------------------------------------------------------------------------
TCPSenderMessage(seqno, payload, SYN, FIN, RST) ==
    [seqno |-> seqno, payload |-> payload, SYN |-> SYN, FIN |-> FIN, RST |-> RST]

TCPReceiverMessage(ackno, window_size, RST) ==
    [ackno |-> ackno, window_size |-> window_size, RST |-> RST]

squence_length(m) ==
    Len(m.payload) + (IF m.SYN THEN 1 ELSE 0) + (IF m.FIN THEN 1 ELSE 0)

\* ------------------------------------------------------------------------
\* TcpSender (tcp_sender.py)
\* ------------------------------------------------------------------------
TcpSender(isn, initial_RTO) ==
    [isn |-> isn, initial_RTO |-> initial_RTO, RTO |-> initial_RTO,
     retrans_count |-> 0, fin_seqno |-> MAX_SEQNO, next_seqno |-> 0,
     ack_seqno |-> 0, window_size |-> 1, last_sent_time |-> 0,
     outstanding_data |-> <<>>, syn_sent |-> FALSE, fin_sent |-> FALSE,
     recv_zero_window_size |-> FALSE]

reset_timer(s) ==
    [s EXCEPT !.last_sent_time = 0, !.RTO = s.initial_RTO, !.retrans_count = 0]

\* the loop of receive that pops the acknowledged segments
RECURSIVE PopAcknowledged(_, _, _)
PopAcknowledged(q, isn, ack_seqno) ==
    IF q = <<>> THEN q
    ELSE IF Wrap32_unwrap(Head(q).seqno, isn, ack_seqno) + squence_length(Head(q))
              <= ack_seqno
         THEN PopAcknowledged(Tail(q), isn, ack_seqno)
         ELSE q

\* the seqno update of receive for an ackno beyond next_seqno (lines 43-44)
AckBeyondNext(s, new_ack_seqno) ==
    IF new_ack_seqno > s.next_seqno
    THEN [s EXCEPT !.ack_seqno = new_ack_seqno]
    ELSE s

\* the update of receive for an ackno above ack_seqno (lines 47-57)
AckAdvance(s, new_ack_seqno) ==
    IF new_ack_seqno > s.ack_seqno
    THEN reset_timer([s EXCEPT
             !.ack_seqno = new_ack_seqno,
             !.outstanding_data = PopAcknowledged(@, s.isn, new_ack_seqno)])
    ELSE s

\* the window update of receive (lines 60-61)
WindowExpand(s, new_ack_seqno, message) ==
    IF new_ack_seqno <= s.ack_seqno
       /\ message.window_size + new_ack_seqno > s.window_size + s.ack_seqno
    THEN [s EXCEPT !.window_size = new_ack_seqno + message.window_size - s.ack_seqno]
    ELSE s

TcpSender_receive(s, message) ==
    IF message.RST
    THEN \* input_stream.set_error(): ByteStream has no such method
         [sender |-> s, raised |-> TRUE]
    ELSE LET s1 == [s EXCEPT !.recv_zero_window_size = (message.window_size = 0)]
         IN  IF message.ackno = None
             THEN [sender |-> s1, raised |-> FALSE]
             ELSE LET new_ack_seqno ==
                          Wrap32_unwrap(message.ackno, s1.isn, s1.ack_seqno)
                      s2 == AckBeyondNext(s1, new_ack_seqno)
                      s3 == AckAdvance(s2, new_ack_seqno)
                      s4 == WindowExpand(s3, new_ack_seqno, message)
                  IN  [sender |-> s4, raised |-> FALSE]

\* next_seqno after a segment was sent (line 104)
NextSeqnoAfter(s, msg) ==
    s.next_seqno + Min(s.next_seqno + squence_length(msg), s.fin_seqno)

\* whether the segment being built carries FIN (line 89); st is the stream
\* after the payload was popped
CanSendFin(s, st, payload_size) ==
    /\ is_finished(st)
    /\ s.next_seqno + payload_size <= s.ack_seqno + s.window_size
    /\ s.fin_seqno = MAX_SEQNO

\* the loop of push; sent collects the transmitted segments
RECURSIVE PushLoop(_, _, _)
PushLoop(s, st, sent) ==
    IF ~(s.window_size > 0 /\ s.next_seqno < s.ack_seqno + s.window_size)
    THEN [sender |-> s, stream |-> st, sent |-> sent, raised |-> FALSE]
    ELSE
    LET SYN == (s.next_seqno = 0)
        synbit == IF SYN THEN 1 ELSE 0
        s1 == IF SYN THEN [s EXCEPT !.syn_sent = TRUE] ELSE s
        RST == has_error(st)
        payload_size ==
            Min(Min(s.window_size - (s.next_seqno - s.ack_seqno) - synbit,
                    MAX_PAYLOAD_SIZE),
                bytes_buffered(st))
        peeked == ByteStream_peek(st, payload_size)
        popped == ByteStream_pop(st, payload_size)
        st1 == popped.stream
        FIN == CanSendFin(s1, st1, payload_size)
        s2 == IF FIN
              THEN [s1 EXCEPT !.fin_sent = TRUE,
                              !.fin_seqno = s.next_seqno + payload_size + synbit + 1]
              ELSE s1
        msg == TCPSenderMessage(Wrap32_add(s.isn, s.next_seqno), peeked.data,
                                SYN, FIN, RST)
        s3 == [s2 EXCEPT !.outstanding_data = Append(@, msg),
                         !.next_seqno = NextSeqnoAfter(s2, msg)]
    IN  IF peeked.raised
        THEN [sender |-> s1, stream |-> st, sent |-> sent, raised |-> TRUE]
        ELSE IF squence_length(msg) = 0
        THEN [sender |-> s2, stream |-> st1, sent |-> sent, raised |-> FALSE]
        ELSE IF FIN
        THEN [sender |-> s3, stream |-> st1, sent |-> Append(sent, msg),
              raised |-> FALSE]
        ELSE PushLoop(s3, st1, Append(sent, msg))

TcpSender_push(s, st) == PushLoop(s, st, <<>>)

\* Timeout with a linear instead of an exponential backoff
Timeout_linear(s) ==
    IF s.recv_zero_window_size
    THEN reset_timer(s)
    ELSE [s EXCEPT !.last_sent_time = 0,
                   !.retrans_count = @ + 1,
                   !.RTO = @ + s.initial_RTO]

\* the retransmission of tick when the timer has expired (lines 119-128)
Timeout(s) ==
    IF s.recv_zero_window_size
    THEN reset_timer(s)
    ELSE [s EXCEPT !.last_sent_time = 0,
                   !.retrans_count = @ + 1,
                   !.RTO = @ * 2]

\* tick that compares the elapsed time with > instead of >=
TcpSender_tick_late(s, ms_since_last_tick) ==
    IF Len(s.outstanding_data) = 0
    THEN [sender |-> reset_timer(s), sent |-> <<>>]
    ELSE LET s1 == [s EXCEPT !.last_sent_time = @ + ms_since_last_tick]
         IN  IF s1.last_sent_time > s1.RTO
             THEN [sender |-> Timeout(s1), sent |-> <<s1.outstanding_data[1]>>]
             ELSE [sender |-> s1, sent |-> <<>>]

TcpSender_tick(s, ms_since_last_tick) ==
    IF Len(s.outstanding_data) = 0
    THEN [sender |-> reset_timer(s), sent |-> <<>>]
    ELSE LET s1 == [s EXCEPT !.last_sent_time = @ + ms_since_last_tick]
         IN  IF s1.last_sent_time >= s1.RTO
             THEN [sender |-> Timeout(s1), sent |-> <<s1.outstanding_data[1]>>]
             ELSE [sender |-> s1, sent |-> <<>>]

make_empty_message(s, st) ==
    TCPSenderMessage(Wrap32_add(s.isn, Min(s.next_seqno, s.fin_seqno)),
                     <<>>, FALSE, FALSE, has_error(st))


\* ------------------------------------------------------------------------
\* Reassembler (reassembler.py).  stored maps the offsets whose bitmap
\* entry is 1 to the byte of buffer at that offset; the other entries of
\* bitmap and buffer are 0.
\* ------------------------------------------------------------------------
Reassembler(output) ==
    [unass_base |-> 0, window_size |-> output.capacity,
     stored |-> <<>>, eof |-> FALSE]

unass_size(ras) == Cardinality(DOMAIN ras.stored)

\* the number of leading 1 entries of the bitmap
RECURSIVE Contiguous(_, _)
Contiguous(ras, i) ==
    IF i < ras.window_size /\ i \in DOMAIN ras.stored
    THEN Contiguous(ras, i + 1)
    ELSE i

\* check_contiguous that pushes the leading bytes and leaves them in the
\* buffer and the bitmap
check_contiguous_unshifted(ras, output) ==
    LET count == Contiguous(ras, 0)
        pushed == ByteStream_push(output, [i \in 1 .. count |-> ras.stored[i - 1]])
    IN  IF count = 0
        THEN [reassembler |-> ras, stream |-> output, raised |-> FALSE]
        ELSE IF pushed.raised
        THEN [reassembler |-> ras, stream |-> output, raised |-> TRUE]
        ELSE [reassembler |-> [ras EXCEPT !.unass_base = @ + count],
              stream |-> pushed.stream, raised |-> FALSE]

check_contiguous(ras, output) ==
    LET count == Contiguous(ras, 0)
        pushed == ByteStream_push(output, [i \in 1 .. count |-> ras.stored[i - 1]])
        kept == {o \in DOMAIN ras.stored : o >= count}
    IN  IF count = 0
        THEN [reassembler |-> ras, stream |-> output, raised |-> FALSE]
        ELSE IF pushed.raised
        THEN [reassembler |-> ras, stream |-> output, raised |-> TRUE]
        ELSE [reassembler |->
                 [ras EXCEPT !.stored = [o \in {k - count : k \in kept}
                                            |-> ras.stored[o + count]],
                             !.unass_base = @ + count],
              stream |-> pushed.stream, raised |-> FALSE]

\* Store that lays the bytes out last byte first
Store_reversed(ras, at, data, from, real_len) ==
    [ras EXCEPT !.stored =
        [o \in DOMAIN ras.stored \cup (at .. at + real_len - 1) |->
            IF o >= at /\ o < at + real_len
            THEN data[from + real_len - (o - at)]
            ELSE ras.stored[o]]]

\* buffer and bitmap after data[from + 1 .. from + real_len] went to offset at
Store(ras, at, data, from, real_len) ==
    [ras EXCEPT !.stored =
        [o \in DOMAIN ras.stored \cup (at .. at + real_len - 1) |->
            IF o >= at /\ o < at + real_len
            THEN data[from + (o - at) + 1]
            ELSE ras.stored[o]]]

\* Accept that clips a segment to the capacity of the output stream instead
\* of its available capacity
Accept_whole_window(ras, output, index, data, eof) ==
    LET data_len == Len(data)
    IN  IF index >= ras.unass_base
        THEN LET offset == index - ras.unass_base
                 real_len == Min(data_len, ras.window_size - offset)
                 r1 == IF real_len >= data_len /\ eof
                       THEN [ras EXCEPT !.eof = TRUE] ELSE ras
             IN  IF real_len > 0 THEN Store(r1, offset, data, 0, real_len) ELSE r1
        ELSE IF index + data_len > ras.unass_base
        THEN LET offset == ras.unass_base - index
                 real_len == Min(data_len - offset, ras.window_size)
                 r1 == IF real_len >= data_len - offset /\ eof
                       THEN [ras EXCEPT !.eof = TRUE] ELSE ras
             IN  IF real_len > 0 THEN Store(r1, 0, data, offset, real_len) ELSE r1
        ELSE ras

\* Accept that remembers the end of the stream whenever eof is passed
Accept_eof_always(ras, output, index, data, eof) ==
    LET data_len == Len(data)
        r1 == IF eof THEN [ras EXCEPT !.eof = TRUE] ELSE ras
    IN  IF index >= ras.unass_base
        THEN LET offset == index - ras.unass_base
                 real_len == Min(data_len, available_capacity(output) - offset)
             IN  IF real_len > 0 THEN Store(r1, offset, data, 0, real_len) ELSE r1
        ELSE IF index + data_len > ras.unass_base
        THEN LET offset == ras.unass_base - index
                 real_len == Min(data_len - offset, available_capacity(output))
             IN  IF real_len > 0 THEN Store(r1, 0, data, offset, real_len) ELSE r1
        ELSE ras

\* the part of insert that fills buffer, bitmap and eof (lines 43-80)
Accept(ras, output, index, data, eof) ==
    LET data_len == Len(data)
    IN  IF index >= ras.unass_base
        THEN LET offset == index - ras.unass_base
                 real_len == Min(data_len, available_capacity(output) - offset)
                 r1 == IF real_len >= data_len /\ eof
                       THEN [ras EXCEPT !.eof = TRUE] ELSE ras
             IN  IF real_len > 0 THEN Store(r1, offset, data, 0, real_len) ELSE r1
        ELSE IF index + data_len > ras.unass_base
        THEN LET offset == ras.unass_base - index
                 real_len == Min(data_len - offset, available_capacity(output))
                 r1 == IF real_len >= data_len - offset /\ eof
                       THEN [ras EXCEPT !.eof = TRUE] ELSE ras
             IN  IF real_len > 0 THEN Store(r1, 0, data, offset, real_len) ELSE r1
        ELSE ras

\* a last statement of insert that closes the output as soon as eof is
\* set, bytes pending or not
CloseAtEof_eager(c) ==
    IF c.raised THEN c
    ELSE IF c.reassembler.eof
    THEN [c EXCEPT !.stream = ByteStream_close(@)]
    ELSE c

\* the last statement of insert (lines 86-87); c is what check_contiguous
\* left
CloseAtEof(c) ==
    IF c.raised THEN c
    ELSE IF c.reassembler.eof /\ unass_size(c.reassembler) = 0
    THEN [c EXCEPT !.stream = ByteStream_close(@)]
    ELSE c

Reassembler_insert(ras, output, index, data, eof) ==
    IF index >= ras.unass_base + ras.window_size
    THEN [reassembler |-> ras, stream |-> output, raised |-> FALSE]
    ELSE CloseAtEof(
             check_contiguous(Accept(ras, output, index, data, eof), output))

\* ------------------------------------------------------------------------
\* TCPReceiver (tcp_receiver.py).  The receiver reaches its reassembler
\* through window_size(), writer() and reader(); they stand for the
\* window_size and the output stream of the Reassembler of reassembler.py.
\* ------------------------------------------------------------------------
TCPReceiver(ras) ==
    [isn |-> 0, window_size |-> Min(ras.window_size, 65535),
     syn_received |-> FALSE, fin_received |-> FALSE]

\* the first statement of receive (lines 10-14)
ReceiveSyn(r, ras, output, message) ==
    IF message.SYN
    THEN LET r1 == [r EXCEPT !.isn = message.seqno, !.syn_received = TRUE]
             ins == Reassembler_insert(ras, output, 0, <<>>, message.FIN)
         IN  IF message.FIN
             THEN [receiver |-> r1, reassembler |-> ins.reassembler,
                   stream |-> ins.stream, raised |-> ins.raised]
             ELSE [receiver |-> r1, reassembler |-> ras, stream |-> output,
                   raised |-> FALSE]
    ELSE [receiver |-> r, reassembler |-> ras, stream |-> output,
          raised |-> FALSE]

\* a receiver that puts a segment from before the stream at its start
StreamIndex_clamped(r, output, message) ==
    LET checkpoint == output.bytes_pushed + 1
        absolute_seqno == Wrap32_unwrap(message.seqno, r.isn, checkpoint)
    IN  IF message.SYN \/ absolute_seqno = 0 THEN 0 ELSE absolute_seqno - 1

\* the index of the first payload byte in the stream (lines 23-27)
StreamIndex(r, output, message) ==
    LET checkpoint == output.bytes_pushed + 1
        absolute_seqno == Wrap32_unwrap(message.seqno, r.isn, checkpoint)
    IN  IF message.SYN THEN 0 ELSE absolute_seqno - 1

\* the last statement of receive (lines 31-32); ins is what insert left
ReceiveFin(r, message, ins) ==
    IF ins.raised
    THEN [receiver |-> r, reassembler |-> ins.reassembler,
          stream |-> ins.stream, raised |-> TRUE]
    ELSE [receiver |-> IF message.FIN THEN [r EXCEPT !.fin_received = TRUE]
                       ELSE r,
          reassembler |-> ins.reassembler, stream |-> ins.stream,
          raised |-> FALSE]

\* receive from its second statement on (lines 16-32); a is what the first
\* statement left
ReceivePayload(a, message) ==
    IF a.raised THEN a
    ELSE IF message.RST
    THEN \* reassembler.set_error() calls output.set_error(), which
         \* ByteStream does not have
         [a EXCEPT !.raised = TRUE]
    ELSE IF ~a.receiver.syn_received THEN a
    ELSE ReceiveFin(a.receiver, message,
                    Reassembler_insert(
                        a.reassembler, a.stream,
                        StreamIndex(a.receiver, a.stream, message),
                        message.payload, message.FIN))

TCPReceiver_receive(r, ras, output, message) ==
    ReceivePayload(ReceiveSyn(r, ras, output, message), message)

\* an absolute ackno that counts the bytes still unread, not the bytes pushed
absolute_ackno_unread(r, output) ==
    bytes_buffered(output) + 1
    + (IF r.fin_received /\ is_closed(output) THEN 1 ELSE 0)

\* the absolute ackno that send wraps (lines 38-40)
absolute_ackno(r, output) ==
    output.bytes_pushed + 1
    + (IF r.fin_received /\ is_closed(output) THEN 1 ELSE 0)

TCPReceiver_send(r, output) ==
    TCPReceiverMessage(
        IF r.syn_received THEN Wrap32_wrap(absolute_ackno(r, output), r.isn)
                          ELSE None,
        r.window_size - bytes_buffered(output),
        has_error(output))

\* ------------------------------------------------------------------------
\* The datagrams of the carrier (adapter.py).  A datagram is the record of
\* the fields that serialize_tcp_message lays out; the sequence and
\* acknowledgment numbers have the width of a Wrap32.
\* ------------------------------------------------------------------------
TCPMessage(sender_message, receiver_message) ==
    [sender_message |-> sender_message, receiver_message |-> receiver_message]

\* the window that fits the two bytes of the header (line 56)
Serialisable(message) == message.receiver_message.window_size \in 0 .. 65535

serialize_tcp_message(message) ==
    LET sm == message.sender_message
        rm == message.receiver_message
    IN  [seqno |-> sm.seqno,
         ackno |-> IF rm.ackno # None THEN rm.ackno ELSE 0,
         payload |-> sm.payload,
         window_size |-> rm.window_size,
         SYN |-> sm.SYN, FIN |-> sm.FIN, RST |-> sm.RST,
         receiver_RST |-> rm.RST]

deserialize_tcp_message(data) ==
    TCPMessage(
        TCPSenderMessage(data.seqno, data.payload, data.SYN, data.FIN, data.RST),
        TCPReceiverMessage(IF data.ackno # 0 THEN data.ackno ELSE None,
                           data.window_size, data.receiver_RST))

\* ------------------------------------------------------------------------
\* TCPConnection (tcp_connection.py).  A connection is the record of its
\* halves, its streams and need_send.  The module imports TcpSender under
\* the name TCPSender, and hands push and tick a callback where TcpSender
\* calls transmit: every segment the sender transmits goes through
\* transmit_handler.
\* ------------------------------------------------------------------------
\* transmit_handler for each of the segments (lines 10-12)
transmit_handler(c, sent) ==
    [i \in 1 .. Len(sent) |->
        TCPMessage(sent[i], TCPReceiver_send(c.receiver, c.inbound_stream))]

\* the connection after its sender returned p from push
Pushed(c, p) ==
    [conn |-> [c EXCEPT !.sender = p.sender,
                        !.outbound_stream = p.stream,
                        !.need_send = IF p.sent = <<>> THEN @ ELSE FALSE],
     sent |-> transmit_handler(c, p.sent),
     raised |-> p.raised]

TCPConnection_push(c) == Pushed(c, TcpSender_push(c.sender, c.outbound_stream))

\* need_send that a segment occupying sequence numbers does not set
NeedSend_keepalive_only(c, msg) ==
    LET our_ackno == TCPReceiver_send(c.receiver, c.inbound_stream).ackno
    IN  \/ c.need_send
        \/ /\ our_ackno # None
           /\ Wrap32_add(msg.sender_message.seqno, 1) = our_ackno

\* need_send after the first two statements of receive (lines 76-81)
NeedSend(c, msg) ==
    LET our_ackno == TCPReceiver_send(c.receiver, c.inbound_stream).ackno
    IN  \/ c.need_send
        \/ squence_length(msg.sender_message) > 0
        \/ /\ our_ackno # None
           /\ Wrap32_add(msg.sender_message.seqno, 1) = our_ackno

\* the last statement of receive (lines 91-92); p is what push left
Reply(p) ==
    IF p.raised THEN p
    ELSE IF p.conn.need_send
    THEN [conn |-> [p.conn EXCEPT !.need_send = FALSE],
          sent |-> p.sent \o
                   transmit_handler(
                       p.conn, <<make_empty_message(p.conn.sender,
                                                    p.conn.outbound_stream)>>),
          raised |-> FALSE]
    ELSE p

\* receive from sender.receive on (lines 87-92); c is the connection when
\* sender.receive returned sr
ReceiveAck(c, sr) ==
    IF sr.raised THEN [conn |-> c, sent |-> <<>>, raised |-> TRUE]
    ELSE Reply(TCPConnection_push(c))

\* receive from receiver.receive on (lines 84-92); c is the connection when
\* receiver.receive returned, raising or not
ReceiveSegment(c, raised, msg) ==
    IF raised THEN [conn |-> c, sent |-> <<>>, raised |-> TRUE]
    ELSE ReceiveAck(
             [c EXCEPT !.sender =
                 TcpSender_receive(c.sender, msg.receiver_message).sender],
             TcpSender_receive(c.sender, msg.receiver_message))

\* the connection with need_send of lines 76-81 when receiver.receive
\* returned rr
Received(c, msg, rr) ==
    ReceiveSegment([c EXCEPT !.need_send = NeedSend(c, msg),
                             !.receiver = rr.receiver,
                             !.reassembler = rr.reassembler,
                             !.inbound_stream = rr.stream],
                   rr.raised, msg)

TCPConnection_receive(c, msg) ==
    Received(c, msg,
             TCPReceiver_receive(c.receiver, c.reassembler, c.inbound_stream,
                                 msg.sender_message))

\* active returns True whatever the state of the connection (line 45)
TCPConnection_active(c) == TRUE

\* tick hands the sender make_transmit_func(transmit_func), which the class
\* does not define; it is taken to be the callback that push hands it
TCPConnection_tick(c, ms_since_last_tick) ==
    LET t == TcpSender_tick(c.sender, ms_since_last_tick)
    IN  [conn |-> [c EXCEPT !.sender = t.sender,
                            !.need_send = IF t.sent = <<>> THEN @ ELSE FALSE],
         sent |-> transmit_handler(c, t.sent),
         raised |-> FALSE]

\* ------------------------------------------------------------------------
\* State
\* ------------------------------------------------------------------------
Endpoints == {"A", "B"}
Peer(e) == IF e = "A" THEN "B" ELSE "A"

VARIABLES
    sender,            \* endpoint -> TcpSender
    outbound_stream,   \* endpoint -> ByteStream read by the sender
    written,           \* endpoint -> number of bytes the application wrote
    transmitted,       \* the messages handed to transmit by the last call
    last_call,         \* the last call: its name, endpoint, arguments, outcome
    elapsed,           \* endpoint -> ms ticked since the timer was last zeroed
    timeouts,          \* endpoint -> timeouts in a row with a non-zero window
    receiver,          \* endpoint -> TCPReceiver
    reassembler,       \* endpoint -> Reassembler of the receiver
    inbound_stream,    \* endpoint -> ByteStream written by the reassembler
    need_send,         \* endpoint -> need_send of its TCPConnection
    network,           \* endpoint -> the datagrams the carrier holds for it
    inserted,          \* the segments handed to insert since construction
    socket,            \* the MiniTCPSocket of B: its threads and its flags
    ring_stream,       \* a ByteStream on its RingBuffer, and what went through
    wrap32,            \* a Wrap32 with a zero point and a checkpoint
    codec              \* a TCPMessage, its datagram and what that decodes to

senderVars == <<sender, outbound_stream, written, elapsed, timeouts>>
receiverVars == <<receiver, reassembler, inbound_stream, inserted>>
connVars == <<need_send, network>>
socketVars == <<socket>>
unitVars == <<ring_stream, wrap32, codec>>
vars == <<sender, outbound_stream, written, transmitted, last_call,
          elapsed, timeouts, receiver, reassembler, inbound_stream,
          need_send, network, inserted, socket, ring_stream, wrap32,
          codec>>

\* kind says which case of the method the call was
Call(op, e, kind, raised) ==
    [op |-> op, endpoint |-> e, kind |-> kind, raised |-> raised]

\* the i-th byte an application writes is i
Bytes(from, n) == [i \in 1..n |-> from + i]

\* ------------------------------------------------------------------------
\* Calls of the application on an outbound stream
\* ------------------------------------------------------------------------
AppWrite(e, n) ==
    \E r \in {ByteStream_push(outbound_stream[e], Bytes(written[e], n))} :
        /\ written[e] + n <= MaxWrite
        /\ outbound_stream' = [outbound_stream EXCEPT ![e] = r.stream]
        /\ written' = [written EXCEPT ![e] = IF r.raised THEN @ ELSE @ + n]
        /\ transmitted' = <<>>
        /\ last_call' = Call("write", e, "", r.raised)
        /\ UNCHANGED <<sender, elapsed, timeouts, receiverVars, connVars,
                       socketVars, unitVars>>

AppClose(e) ==
    /\ ~is_closed(outbound_stream[e])
    /\ outbound_stream' = [outbound_stream EXCEPT ![e] = ByteStream_close(@)]
    /\ transmitted' = <<>>
    /\ last_call' = Call("close", e, "", FALSE)
    /\ UNCHANGED <<sender, written, elapsed, timeouts, receiverVars, connVars,
                   socketVars, unitVars>>

\* ------------------------------------------------------------------------
\* Calls on a TcpSender
\* ------------------------------------------------------------------------
SenderPush(e) ==
    \E r \in {TcpSender_push(sender[e], outbound_stream[e])} :
        /\ sender[e].next_seqno <= MaxSeqno
        /\ sender' = [sender EXCEPT ![e] = r.sender]
        /\ outbound_stream' = [outbound_stream EXCEPT ![e] = r.stream]
        /\ transmitted' = r.sent
        /\ last_call' = Call("push", e, "", r.raised)
        /\ UNCHANGED <<written, elapsed, timeouts, receiverVars, connVars,
                       socketVars, unitVars>>

\* which case of receive a message is for sender s: it carries RST, it has
\* no ackno, its ackno is beyond next_seqno, above ack_seqno, or not above
AckKind(s, message) ==
    IF message.RST THEN "rst"
    ELSE IF message.ackno = None THEN "none"
    ELSE LET new_ack_seqno == Wrap32_unwrap(message.ackno, s.isn, s.ack_seqno)
         IN  IF new_ack_seqno > s.next_seqno THEN "beyond"
             ELSE IF new_ack_seqno > s.ack_seqno THEN "new"
             ELSE "old"

\* which case of tick: nothing outstanding, the timer expires, or not yet
TickKind(s, ms) ==
    IF s.outstanding_data = <<>> THEN "idle"
    ELSE IF s.last_sent_time + ms >= s.RTO THEN "timeout"
    ELSE "early"

ZeroesTimer(s, message) == AckKind(s, message) = "new"

SenderReceive(e, message) ==
    \E r \in {TcpSender_receive(sender[e], message)} :
        /\ r.sender.ack_seqno <= MaxSeqno
        /\ sender' = [sender EXCEPT ![e] = r.sender]
        /\ transmitted' = <<>>
        /\ last_call' = Call("receive", e, AckKind(sender[e], message), r.raised)
        /\ elapsed' = [elapsed EXCEPT ![e] =
                          IF ZeroesTimer(sender[e], message) THEN 0 ELSE @]
        /\ timeouts' = [timeouts EXCEPT ![e] =
                          IF ZeroesTimer(sender[e], message) THEN 0 ELSE @]
        /\ UNCHANGED <<outbound_stream, written, receiverVars, connVars,
                       socketVars, unitVars>>

Ticked(e, ms) ==
    \E r \in {TcpSender_tick(sender[e], ms)} :
        /\ sender' = [sender EXCEPT ![e] = r.sender]
        /\ transmitted' = r.sent
        /\ last_call' = Call("tick", e, TickKind(sender[e], ms), FALSE)
        /\ elapsed' = [elapsed EXCEPT ![e] =
                          IF sender[e].outstanding_data = <<>> \/ r.sent # <<>>
                          THEN 0 ELSE @ + ms]
        /\ timeouts' = [timeouts EXCEPT ![e] =
                          IF sender[e].outstanding_data = <<>> THEN 0
                          ELSE IF r.sent = <<>> THEN @
                          ELSE IF sender[e].recv_zero_window_size THEN 0
                          ELSE @ + 1]
        /\ UNCHANGED <<outbound_stream, written, receiverVars, connVars,
                       socketVars, unitVars>>

SenderTick(e, ms) ==
    /\ sender[e].retrans_count < MaxRetx
    /\ Ticked(e, ms)

\* ------------------------------------------------------------------------
\* Calls on a TCPReceiver and of the application on its inbound stream
\* ------------------------------------------------------------------------
\* kind is what last_call records of the call: nothing, or the segment
ReceiverReceiveAs(e, message, kind) ==
    \E r \in {TCPReceiver_receive(receiver[e], reassembler[e],
                                 inbound_stream[e], message)} :
        /\ inbound_stream[e].bytes_pushed < MaxPushed
        /\ unass_size(r.reassembler) + bytes_buffered(r.stream) <= MaxHeld
        /\ \A o \in DOMAIN r.reassembler.stored :
              r.reassembler.unass_base + o <= MaxPushed
        /\ receiver' = [receiver EXCEPT ![e] = r.receiver]
        /\ reassembler' = [reassembler EXCEPT ![e] = r.reassembler]
        /\ inbound_stream' = [inbound_stream EXCEPT ![e] = r.stream]
        /\ transmitted' = <<>>
        /\ last_call' = Call("receive", e, kind, r.raised)
        /\ UNCHANGED <<senderVars, connVars, inserted, socketVars, unitVars>>

ReceiverReceive(e, message) == ReceiverReceiveAs(e, message, "")

AppRead(e, n) ==
    \E r \in {ByteStream_pop(inbound_stream[e], n)} :
        /\ bytes_buffered(inbound_stream[e]) > 0
        /\ inbound_stream' = [inbound_stream EXCEPT ![e] = r.stream]
        /\ transmitted' = <<>>
        /\ last_call' = Call("read", e, "", r.raised)
        /\ UNCHANGED <<senderVars, receiver, reassembler, connVars, inserted,
                       socketVars, unitVars>>

\* ------------------------------------------------------------------------
\* Calls on a Reassembler on its own, as the harness of test_reassembler.py
\* makes them
\* ------------------------------------------------------------------------
\* the arguments of an insert; again says that the call before it was an
\* insert of the same arguments
Inserting(index, data, eof) ==
    LET args == [index |-> index, len |-> Len(data), eof |-> eof]
    IN  [index |-> index, len |-> Len(data), eof |-> eof,
         again |-> /\ last_call.op = "insert"
                   /\ [k \in DOMAIN args |-> last_call.kind[k]] = args]

Insert(e, index, data, eof) ==
    \E r \in {Reassembler_insert(reassembler[e], inbound_stream[e],
                                index, data, eof)} :
        /\ reassembler' = [reassembler EXCEPT ![e] = r.reassembler]
        /\ inbound_stream' = [inbound_stream EXCEPT ![e] = r.stream]
        /\ transmitted' = <<>>
        /\ last_call' = Call("insert", e, Inserting(index, data, eof), r.raised)
        /\ UNCHANGED <<senderVars, receiver, connVars, socketVars, unitVars>>

ReassemblerInsert(e, index, data, eof) ==
    /\ Insert(e, index, data, eof)
    /\ UNCHANGED inserted

\* ------------------------------------------------------------------------
\* Calls on a TCPConnection and the steps of the carrier
\* ------------------------------------------------------------------------
Conn(e) ==
    [sender |-> sender[e], outbound_stream |-> outbound_stream[e],
     receiver |-> receiver[e], reassembler |-> reassembler[e],
     inbound_stream |-> inbound_stream[e], need_send |-> need_send[e]]

\* the connection of e becomes c
SetConn(e, c) ==
    /\ sender' = [sender EXCEPT ![e] = c.sender]
    /\ outbound_stream' = [outbound_stream EXCEPT ![e] = c.outbound_stream]
    /\ receiver' = [receiver EXCEPT ![e] = c.receiver]
    /\ reassembler' = [reassembler EXCEPT ![e] = c.reassembler]
    /\ inbound_stream' = [inbound_stream EXCEPT ![e] = c.inbound_stream]
    /\ need_send' = [need_send EXCEPT ![e] = c.need_send]

\* the datagrams to e without those in taken, and the messages e sent as
\* datagrams to its peer
Carried(e, taken, sent) ==
    [network EXCEPT
        ![e] = @ \ taken,
        ![Peer(e)] = @ \cup {serialize_tcp_message(sent[i]) : i \in DOMAIN sent}]

\* what a call on the connection of e that returned r leaves behind
Returned(op, e, kind, taken, result) ==
    \E r \in {result} :
        /\ \A i \in DOMAIN r.sent : Serialisable(r.sent[i])
        /\ SetConn(e, r.conn)
        /\ network' = Carried(e, taken, r.sent)
        /\ transmitted' = r.sent
        /\ last_call' = Call(op, e, kind, r.raised)
        /\ UNCHANGED <<elapsed, timeouts, inserted>>

\* the application has the connection push what the stream holds
ConnPush(e) ==
    /\ sender[e].next_seqno <= MaxSeqno
    /\ Returned("push", e, "", {}, TCPConnection_push(Conn(e)))
    /\ UNCHANGED <<written, socketVars, unitVars>>

\* the application writes n bytes and has the connection push them
ConnWrite(e, n) ==
    \E w \in {ByteStream_push(outbound_stream[e], Bytes(written[e], n))} :
        /\ written[e] + n <= MaxWrite
        /\ sender[e].next_seqno <= MaxSeqno
        /\ ~w.raised
        /\ Returned("write", e, "", {},
                    TCPConnection_push([Conn(e) EXCEPT !.outbound_stream = w.stream]))
        /\ written' = [written EXCEPT ![e] = @ + n]
        /\ UNCHANGED <<socketVars, unitVars>>

\* the application closes the outbound stream and has the connection push
ConnClose(e) ==
    /\ ~is_closed(outbound_stream[e])
    /\ sender[e].next_seqno <= MaxSeqno
    /\ Returned("close", e, "", {},
                TCPConnection_push(
                    [Conn(e) EXCEPT !.outbound_stream = ByteStream_close(@)]))
    /\ UNCHANGED <<written, socketVars, unitVars>>

\* which case of receive a message is for connection c: "reply" when its
\* sender part occupies sequence numbers or it is a keep-alive, whose seqno
\* is one before the ackno of c
ReceiveKind(c, msg) ==
    LET our_ackno == TCPReceiver_send(c.receiver, c.inbound_stream).ackno
    IN  IF \/ squence_length(msg.sender_message) > 0
           \/ /\ our_ackno # None
              /\ (msg.sender_message.seqno + 1) % Modulus = our_ackno
        THEN "reply" ELSE ""

\* the carrier delivers datagram data to e; when it keeps the datagram it
\* can deliver it again
ConnReceive(e, data, keep) ==
    /\ data \in network[e]
    /\ sender[e].next_seqno <= MaxSeqno
    /\ \E r \in {TCPConnection_receive(Conn(e),
                                       deserialize_tcp_message(data))} :
          /\ r.conn.sender.ack_seqno <= MaxSeqno
          /\ Returned("receive", e,
                      ReceiveKind(Conn(e), deserialize_tcp_message(data)),
                      IF keep THEN {} ELSE {data}, r)
    /\ UNCHANGED <<written, socketVars, unitVars>>

ConnTicked(e, ms) ==
    /\ Returned("tick", e, TickKind(sender[e], ms), {},
                TCPConnection_tick(Conn(e), ms))
    /\ UNCHANGED <<written, socketVars, unitVars>>

ConnTick(e, ms) ==
    /\ sender[e].retrans_count < MaxRetx
    /\ ConnTicked(e, ms)

\* the timer of e runs while the carrier holds nothing: a round trip is
\* shorter than a timeout
TickWhenQuiet(e, ms) ==
    /\ \A x \in Endpoints : network[x] = {}
    /\ ConnTick(e, ms)

\* the carrier loses datagram data on its way to e; it loses none once a
\* sender is down to its last retransmission
Drop(e, data) ==
    /\ data \in network[e]
    /\ \A x \in Endpoints : sender[x].retrans_count + 1 < MaxRetx
    /\ network' = [network EXCEPT ![e] = @ \ {data}]
    /\ transmitted' = <<>>
    /\ last_call' = Call("drop", e, "", FALSE)
    /\ UNCHANGED <<senderVars, receiverVars, need_send, socketVars, unitVars>>

\* the socket after __init__, and where its two threads are: the thread of
\* the event loop is idle or inside receive or tick, the thread of the
\* application has not accepted yet, is between calls, waits in recv for
\* data_available, or is inside inbound_stream.pop, outbound_stream.push or
\* tcp_connection.push.
MiniTCPSocket ==
    [running |-> FALSE, data_available |-> FALSE,
     loop |-> "idle", message |-> <<>>,
     app |-> "new", size |-> 0, todo |-> 0]

\* the state of the halves of every endpoint after construction, the
\* connection of e with the initial sequence number isns[e]
\* a Wrap32 raw_value with a zero point and a checkpoint; op lists the
\* methods applied to it so far, absolute is what unwrap returned
Wrapped(w, z, c) ==
    [raw_value |-> w, zero_point |-> z, checkpoint |-> c, absolute |-> None,
     op |-> <<>>, given |-> w]

\* a message with, once they exist, the datagram serialize_tcp_message
\* made of it and the message deserialize_tcp_message made of that
Encoding(message) == [message |-> message, data |-> <<>>, decoded |-> <<>>]

\* the message whose fields have the defaults of the dataclasses, with a
\* seqno
Defaults ==
    TCPMessage(TCPSenderMessage(0, <<>>, FALSE, FALSE, FALSE),
               TCPReceiverMessage(None, 0, FALSE))

EndpointsConstructed(isns, rto, capacity) ==
    /\ sender = [e \in Endpoints |-> TcpSender(isns[e], rto)]
    /\ outbound_stream = [e \in Endpoints |-> ByteStream(capacity)]
    /\ receiver = [e \in Endpoints |->
                      TCPReceiver(Reassembler(ByteStream(capacity)))]
    /\ reassembler = [e \in Endpoints |-> Reassembler(ByteStream(capacity))]
    /\ inbound_stream = [e \in Endpoints |-> ByteStream(capacity)]
    /\ written = [e \in Endpoints |-> 0]
    /\ transmitted = <<>>
    /\ last_call = Call("init", "A", "", FALSE)
    /\ elapsed = [e \in Endpoints |-> 0]
    /\ timeouts = [e \in Endpoints |-> 0]
    /\ need_send = [e \in Endpoints |-> FALSE]
    /\ network = [e \in Endpoints |-> {}]
    /\ inserted = {}
    /\ socket = MiniTCPSocket

\* the units checked on their own: a stream of the given capacity through
\* which nothing went, a Wrap32 to which nothing was applied, a message
\* not yet serialized
UnitsConstructed(capacity, w, message) ==
    /\ ring_stream = Through(RingStream(capacity))
    /\ wrap32 = w
    /\ codec = message

ConstructedWith(isns, rto, capacity) ==
    /\ EndpointsConstructed(isns, rto, capacity)
    /\ UnitsConstructed(MaxRing, Wrapped(0, 0, 0), Encoding(Defaults))

Constructed(isn, rto, capacity) ==
    ConstructedWith([e \in Endpoints |-> isn], rto, capacity)

\* ------------------------------------------------------------------------
\* The sender half alone, driven by an arbitrary peer
\* ------------------------------------------------------------------------
ISNs == {Modulus - 2}
PeerISNs == {1, Modulus - 1}
InitialRTOs == {2}
Capacities == {2}
TickSteps == {1, 2}

\* the messages of an arbitrary peer; one message stands for those with RST
ReceiverMessages ==
    [ackno : {None} \cup (0 .. Modulus - 1),
     window_size : 0 .. MaxWindow,
     RST : {FALSE}]
    \cup {TCPReceiverMessage(None, 0, TRUE)}

SenderInit ==
    \E isn \in ISNs, rto \in InitialRTOs, c \in Capacities :
        Constructed(isn, rto, c)

SenderNext ==
    \/ \E n \in 1 .. MaxWrite : AppWrite("A", n)
    \/ AppClose("A")
    \/ SenderPush("A")
    \/ \E message \in ReceiverMessages : SenderReceive("A", message)
    \/ \E ms \in TickSteps : SenderTick("A", ms)

SenderSpec == SenderInit /\ [][SenderNext]_vars

\* The sender whose timer is left to run: each tick waits until just before
\* the timer expires or until it expires, as test_retx_syn_until_too_many
\* does
RetxSteps(s) == {s.RTO - s.last_sent_time - 1, s.RTO - s.last_sent_time}

RetxTick(e) ==
    /\ sender[e].retrans_count < MaxAttempts
    /\ \E ms \in RetxSteps(sender[e]) : ms > 0 /\ Ticked(e, ms)

\* the messages of a peer that acknowledges the SYN and nothing after it
RetxMessages ==
    {m \in ReceiverMessages :
        \A isn \in ISNs : m.ackno \in {None, (isn + 1) % Modulus}}

RetxNext ==
    \/ \E n \in 1 .. MaxWrite : AppWrite("A", n)
    \/ AppClose("A")
    \/ SenderPush("A")
    \/ \E message \in RetxMessages : SenderReceive("A", message)
    \/ RetxTick("A")

RetxSpec == SenderInit /\ [][RetxNext]_vars


\* ------------------------------------------------------------------------
\* The receiver half alone, driven by an arbitrary peer
\* ------------------------------------------------------------------------
ReceiverCapacities == {2, 65537}

\* The receiver never looks at a payload byte, so every byte is labelled
\* with the wire sequence number it travels at.
Payload(seqno, SYN, n) ==
    [j \in 1 .. n |-> (seqno + (IF SYN THEN 1 ELSE 0) + j - 1) % Modulus]

\* the segments of an arbitrary peer; its SYNs carry one of the ISNs, and
\* one segment stands for those with RST that differ in what receive does
\* not read before it raises
SenderMessages ==
    {TCPSenderMessage(seqno, Payload(seqno, SYN, n), SYN, FIN, RST) :
        seqno \in 0 .. Modulus - 1, n \in 0 .. MaxPayload,
        SYN \in BOOLEAN, FIN \in BOOLEAN, RST \in BOOLEAN}

PeerMessages ==
    {m \in SenderMessages :
        /\ m.SYN => m.seqno \in PeerISNs
        /\ m.RST => m.payload = <<>>
        /\ (m.RST /\ ~m.SYN) => (m.seqno = 0 /\ ~m.FIN)}

ReceiverInit ==
    \E isn \in ISNs, rto \in InitialRTOs, c \in ReceiverCapacities :
        Constructed(isn, rto, c)

ReceiverNext ==
    \/ \E message \in PeerMessages : ReceiverReceive("A", message)
    \/ \E n \in 1 .. MaxPayload : AppRead("A", n)

ReceiverSpec == ReceiverInit /\ [][ReceiverNext]_vars

\* ------------------------------------------------------------------------
\* Two connections A and B joined by a carrier; the application of A
\* writes and closes, the application of B reads
\* ------------------------------------------------------------------------
ConnInit == SenderInit

Datagrams == UNION {network[e] : e \in Endpoints}

ConnCalls ==
    \/ \E n \in 1 .. MaxWrite : ConnWrite("A", n)
    \/ ConnClose("A")
    \/ ConnPush("A")
    \/ \E n \in 1 .. MaxPayload : AppRead("B", n)

\* The carrier of ConnSpec holds every datagram it was given and delivers
\* any of them at any time: it delivers a datagram twice, delivers a later
\* one before an earlier one, or never delivers it, which is how it drops.
ConnNext ==
    \/ ConnCalls
    \/ \E e \in Endpoints, ms \in InitialRTOs : ConnTick(e, ms)
    \/ \E e \in Endpoints, data \in Datagrams : ConnReceive(e, data, TRUE)

ConnSpec == ConnInit /\ [][ConnNext]_vars

\* A connection whose peer never answers: the carrier delivers nothing and
\* the timer is left to run
UnansweredTick(e) ==
    /\ sender[e].retrans_count < MaxAttempts
    /\ \E ms \in RetxSteps(sender[e]) : ms > 0 /\ ConnTicked(e, ms)

UnansweredNext ==
    \/ \E n \in 1 .. MaxWrite : ConnWrite("A", n)
    \/ ConnClose("A")
    \/ ConnPush("A")
    \/ UnansweredTick("A")

UnansweredSpec == ConnInit /\ [][UnansweredNext]_vars

\* The carrier of FairSpec delivers a datagram once or loses it.
Deliver(e) == \E data \in Datagrams : ConnReceive(e, data, FALSE)

\* a step is a delivery to e when e returns from receive, which it can
\* while the carrier holds a datagram for it
Delivered(e) ==
    /\ network[e] # {}
    /\ last_call' \in {Call("receive", e, kind, raised) :
                         kind \in {"", "reply"}, raised \in BOOLEAN}

Tick(e) == \E ms \in InitialRTOs : TickWhenQuiet(e, ms)

Read(e) == \E n \in 1 .. MaxPayload : AppRead(e, n)

FairNext ==
    \/ ConnCalls
    \/ \E e \in Endpoints : Tick(e)
    \/ \E e \in Endpoints : Deliver(e)
    \/ \E e \in Endpoints, data \in Datagrams : Drop(e, data)

FairSpec ==
    /\ ConnInit
    /\ [][FairNext]_vars
    /\ \A e \in Endpoints : WF_vars(Tick(e)) /\ WF_last_call(Delivered(e))
    /\ WF_vars(Read("B"))

\* Two connections with initial sequence numbers of their own over a
\* carrier that loses nothing: A opens and writes, B answers.  The numbers
\* stand for the 45535 and 65535 of test_basic_connect_as_client; neither
\* number nor its successor wraps.
HandshakeISNs == [A |-> Modulus - 3, B |-> Modulus - 2]

HandshakeInit ==
    \E rto \in InitialRTOs, c \in Capacities :
        ConstructedWith(HandshakeISNs, rto, c)

HandshakeNext ==
    \/ ConnPush("A")
    \/ \E n \in 1 .. MaxWrite : ConnWrite("A", n)
    \/ \E e \in Endpoints : Deliver(e)
    \/ \E e \in Endpoints : Tick(e)
    \/ Read("B")

HandshakeSpec == HandshakeInit /\ [][HandshakeNext]_vars

\* ------------------------------------------------------------------------
\* The MiniTCPSocket of B, which accepts the connection A opens (socket.py).
\* Its event loop runs receiving_task and ticking_task in one thread, so a
\* receive and a tick never overlap; send and recv run in the thread of the
\* application, and no lock or queue stands between the two threads.  A
\* call on the connection is two steps, entering it and returning from it,
\* and it acts on the connection as it is when it returns: of two calls
\* that overlap, either can be the one that acts first.
\* ------------------------------------------------------------------------
Sock == "B"

LoopInside == socket.loop \in {"receive", "tick"}
AppInside == socket.app \in {"pop", "send_write", "send_push"}

\* accept reads the first datagram, has the connection receive it and
\* starts the event loop; nothing else runs until then
SocketAccept ==
    /\ socket.app = "new"
    /\ \E data \in network[Sock] :
          \E r \in {TCPConnection_receive(Conn(Sock),
                                         deserialize_tcp_message(data))} :
              /\ Returned("receive", Sock,
                          ReceiveKind(Conn(Sock), deserialize_tcp_message(data)),
                          {data}, r)
              /\ socket' = [socket EXCEPT !.running = ~r.raised,
                                          !.app = "idle"]
    /\ UNCHANGED <<written, unitVars>>

\* receiving_task: adapter.read returns a datagram and receive is entered
LoopRead ==
    /\ socket.running /\ socket.loop = "idle"
    /\ \E data \in network[Sock] :
          /\ network' = [network EXCEPT ![Sock] = @ \ {data}]
          /\ socket' = [socket EXCEPT !.loop = "receive",
                                      !.message = <<data>>]
    /\ UNCHANGED <<senderVars, receiverVars, need_send, transmitted,
                   last_call,
                   unitVars>>

\* receiving_task: receive returns; an exception is printed and the task
\* goes on
LoopReceive ==
    /\ socket.loop = "receive"
    /\ \E r \in {TCPConnection_receive(
                    Conn(Sock), deserialize_tcp_message(socket.message[1]))} :
          /\ r.conn.sender.ack_seqno <= MaxSeqno
          /\ Returned("receive", Sock,
                      ReceiveKind(Conn(Sock),
                                  deserialize_tcp_message(socket.message[1])),
                      {}, r)
    /\ socket' = [socket EXCEPT !.loop = "idle", !.message = <<>>]
    /\ UNCHANGED <<written, unitVars>>

\* ticking_task: the sleep is over and tick is entered; as in TickWhenQuiet
\* a round trip is shorter than the sleep
LoopSleep ==
    /\ socket.running /\ socket.loop = "idle"
    /\ sender[Sock].retrans_count < MaxRetx
    /\ \A x \in Endpoints : network[x] = {}
    /\ socket' = [socket EXCEPT !.loop = "tick"]
    /\ UNCHANGED <<senderVars, receiverVars, connVars, transmitted,
                   last_call,
                   unitVars>>

\* ticking_task: tick returns
LoopTick ==
    /\ socket.loop = "tick"
    /\ \E ms \in InitialRTOs :
          Returned("tick", Sock, TickKind(sender[Sock], ms), {},
                   TCPConnection_tick(Conn(Sock), ms))
    /\ socket' = [socket EXCEPT !.loop = "idle"]
    /\ UNCHANGED <<written, unitVars>>

\* where recv goes from the head of its loop (line 111)
RecvLoop(size) ==
    IF bytes_buffered(inbound_stream[Sock]) = 0
    THEN [socket EXCEPT !.app = "wait", !.size = size]
    ELSE [socket EXCEPT !.app = "pop", !.size = size]

\* the application calls recv(size)
RecvCall(size) ==
    /\ socket.app = "idle"
    /\ socket' = RecvLoop(size)
    /\ UNCHANGED <<senderVars, receiverVars, connVars, transmitted,
                   last_call,
                   unitVars>>

\* data_available.wait() returns, the event is cleared and the loop of
\* recv looks at the stream again (lines 111-114)
RecvWake ==
    /\ socket.app = "wait"
    /\ socket.data_available
    /\ socket' = [RecvLoop(socket.size) EXCEPT !.data_available = FALSE]
    /\ UNCHANGED <<senderVars, receiverVars, connVars, transmitted,
                   last_call,
                   unitVars>>

\* recv pops what it found and returns (lines 116-121)
RecvPop ==
    /\ socket.app = "pop"
    /\ \E r \in {ByteStream_pop(
                    inbound_stream[Sock],
                    Min(bytes_buffered(inbound_stream[Sock]), socket.size))} :
          /\ inbound_stream' = [inbound_stream EXCEPT ![Sock] = r.stream]
          /\ socket' = [socket EXCEPT
                           !.app = "idle", !.size = 0,
                           !.data_available =
                               IF ~r.raised /\ bytes_buffered(r.stream) > 0
                               THEN TRUE ELSE @]
          /\ last_call' = Call("recv", Sock,
                               IF r.data = <<>> THEN "empty" ELSE "data",
                               r.raised)
    /\ transmitted' = <<>>
    /\ UNCHANGED <<senderVars, receiver, reassembler, inserted, connVars, unitVars>>

\* the application calls send with n bytes
SendCall(n) ==
    /\ socket.app = "idle"
    /\ written[Sock] + n <= MaxTalk
    /\ socket' = [socket EXCEPT !.app = "send_write", !.todo = n]
    /\ UNCHANGED <<senderVars, receiverVars, connVars, transmitted,
                   last_call,
                   unitVars>>

\* send writes what the outbound stream has room for (lines 102-105)
SendWrite ==
    /\ socket.app = "send_write"
    /\ \E k \in {Min(available_capacity(outbound_stream[Sock]), socket.todo)} :
          \E w \in {ByteStream_push(outbound_stream[Sock],
                                     Bytes(written[Sock], k))} :
              /\ outbound_stream' = [outbound_stream EXCEPT ![Sock] = w.stream]
              /\ written' = [written EXCEPT ![Sock] =
                                IF w.raised THEN @ ELSE @ + k]
              /\ socket' =
                    IF w.raised
                    THEN [socket EXCEPT !.app = "idle", !.todo = 0]
                    ELSE [socket EXCEPT !.app = "send_push", !.todo = @ - k]
              /\ last_call' = Call("write", Sock, "", w.raised)
    /\ transmitted' = <<>>
    /\ UNCHANGED <<sender, elapsed, timeouts, receiverVars, connVars, unitVars>>

\* send has the connection push and goes round its loop, whose condition
\* bytes_sent <= len(data) holds for ever (lines 101, 106)
SendPush ==
    /\ socket.app = "send_push"
    /\ sender[Sock].next_seqno <= MaxSeqno
    /\ \E r \in {TCPConnection_push(Conn(Sock))} :
          /\ Returned("push", Sock, "", {}, r)
          /\ socket' =
                IF r.raised
                THEN [socket EXCEPT !.app = "idle", !.todo = 0]
                ELSE [socket EXCEPT !.app = "send_write"]
    /\ UNCHANGED <<written, unitVars>>

LoopStep == LoopRead \/ LoopReceive \/ LoopSleep \/ LoopTick
AppStep == SocketAccept \/ RecvWake \/ RecvPop \/ SendWrite \/ SendPush

SocketNext ==
    \/ ConnPush("A")
    \/ \E n \in 1 .. MaxTalk : written["A"] + n <= MaxTalk /\ ConnWrite("A", n)
    \/ Deliver("A")
    \/ LoopStep
    \/ AppStep
    \/ \E size \in 1 .. MaxTalk : RecvCall(size)
    \/ \E n \in 1 .. MaxTalk : SendCall(n)

\* a step is the return of the event loop from receive when it leaves the
\* socket as LoopReceive does, and the return of the application from
\* accept when it leaves the socket as SocketAccept does, which it can
\* while the carrier holds a datagram for the socket
LoopReturned ==
    /\ socket.loop = "receive"
    /\ socket' = [socket EXCEPT !.loop = "idle", !.message = <<>>]

Accepted ==
    /\ socket.app = "new"
    /\ network[Sock] # {}
    /\ socket' \in {[socket EXCEPT !.running = r, !.app = "idle"] :
                       r \in BOOLEAN}

\* Both threads are scheduled again and again, and the carrier delivers
\* what it holds for A; when the application calls is up to it.
SocketSpec ==
    /\ ConnInit
    /\ [][SocketNext]_vars
    /\ WF_vars(LoopRead \/ LoopSleep \/ LoopTick)
    /\ WF_socket(LoopReturned)
    /\ WF_socket(Accepted)
    /\ WF_vars(RecvWake \/ RecvPop \/ SendWrite \/ SendPush)
    /\ WF_last_call(Delivered("A"))

\* ------------------------------------------------------------------------
\* The Reassembler alone over an output stream the application reads
\* ------------------------------------------------------------------------
RasCapacities == 1 .. MaxCapacity

\* The reassembler never looks at a byte, so the byte of stream index i is
\* labelled i + 1.
Segment(index, n) == [j \in 1 .. n |-> index + j]

ReassemblerInit ==
    \E isn \in ISNs, rto \in InitialRTOs, c \in RasCapacities :
        Constructed(isn, rto, c)

ReassemblerNext ==
    \/ \E index \in 0 .. MaxIndex, n \in 0 .. MaxSegment, eof \in BOOLEAN :
          ReassemblerInsert("B", index, Segment(index, n), eof)
    \/ \E n \in 1 .. MaxPayload : AppRead("B", n)

ReassemblerSpec == ReassemblerInit /\ [][ReassemblerNext]_vars

\* The segments of a stream of N <= capacity bytes cut into pieces that do
\* not overlap, the piece that ends at N marked as the last, inserted in any
\* order and never read: a piece is inserted if it overlaps none of those
\* inserted, ends where the last piece does or before, and, as the last
\* piece, ends where every inserted piece does or after.  The stream of no
\* byte is the one empty piece.
End(seg) == seg.index + seg.len

Overlap(a, b) == a.index < End(b) /\ b.index < End(a)

Piece(seg) ==
    /\ seg.len > 0 \/ (seg.eof /\ seg.index = 0)
    /\ End(seg) <= inbound_stream["B"].capacity
    /\ \A old \in inserted :
          /\ ~Overlap(seg, old)
          /\ old.eof => (~seg.eof /\ End(seg) <= End(old))
          /\ seg.eof => End(old) <= End(seg)

TilingInsert(e, index, n, eof) ==
    LET seg == [index |-> index, len |-> n, eof |-> eof]
    IN  /\ Piece(seg)
        /\ Insert(e, index, Segment(index, n), eof)
        /\ inserted' = inserted \cup {seg}

TilingNext ==
    \E index \in 0 .. MaxCapacity, n \in 0 .. MaxCapacity, eof \in BOOLEAN :
        TilingInsert("B", index, n, eof)

TilingSpec == ReassemblerInit /\ [][TilingNext]_vars

\* ------------------------------------------------------------------------
\* Properties of the sender half
\* ------------------------------------------------------------------------

\* C3: after any sequence of push, receive and tick calls,
\* ack_seqno <= next_seqno <= ack_seqno + max(window_size, 1).
C3_WindowRespected ==
    LET s == sender["A"]
    IN  /\ s.ack_seqno <= s.next_seqno
        /\ s.next_seqno <= s.ack_seqno + Max(s.window_size, 1)

\* the timer state of a sender
TimerState(s) == <<s.RTO, s.last_sent_time, s.retrans_count>>

\* C7: receive of a message whose unwrapped ackno is greater than next_seqno
\* leaves ack_seqno, next_seqno, the outstanding queue and the timer state
\* unchanged.
C7_ImpossibleAckIgnored ==
    [][(last_call'.op = "receive" /\ last_call'.kind = "beyond")
       => /\ sender'["A"].ack_seqno = sender["A"].ack_seqno
          /\ sender'["A"].next_seqno = sender["A"].next_seqno
          /\ sender'["A"].outstanding_data = sender["A"].outstanding_data
          /\ TimerState(sender'["A"]) = TimerState(sender["A"])]_vars

\* what C8 says of a tick of ms milliseconds
TickAsClaimed(ms) ==
    LET s == sender["A"]
    IN  IF s.outstanding_data # <<>> /\ elapsed["A"] + ms >= s.RTO
        THEN /\ transmitted' = <<Head(s.outstanding_data)>>
             /\ sender'["A"].outstanding_data = s.outstanding_data
        ELSE transmitted' = <<>>

\* C8: a tick transmits exactly one segment, the front of the outstanding
\* queue, which stays as it is, when the time ticked since the timer was
\* last zeroed reaches RTO; it transmits nothing on an earlier tick and
\* nothing when the queue is empty.
C8_RetransmitFrontOnTimeout ==
    [][\A ms \in TickSteps : SenderTick("A", ms) => TickAsClaimed(ms)]_vars

C8_Witness ==
    /\ last_call.op = "tick" /\ last_call.kind = "timeout"
    /\ Len(sender["A"].outstanding_data) >= 2
    /\ transmitted = <<Head(sender["A"].outstanding_data)>>
    /\ sender["A"].retrans_count >= 1

\* C9: after k >= 1 timeouts in a row, each with a non-zero peer window and
\* with no new acknowledgment in between, RTO = initial_RTO * 2^k, and the
\* next retransmission is made by the tick at which initial_RTO * 2^k ms
\* have passed since the k-th.
C9_ExponentialBackoff ==
    [][LET k == timeouts["A"]
           s == sender["A"]
       IN  /\ timeouts'["A"] >= 1
              => sender'["A"].RTO = s.initial_RTO * 2 ^ timeouts'["A"]
           /\ \A ms \in TickSteps :
                 (k >= 1 /\ SenderTick("A", ms))
                 => (transmitted' # <<>>
                       <=> elapsed["A"] + ms >= s.initial_RTO * 2 ^ k)]_vars

C9_Witness ==
    /\ timeouts["A"] >= 2
    /\ last_call.op = "tick" /\ last_call.kind = "timeout"
    /\ sender["A"].RTO = 4 * sender["A"].initial_RTO

\* C10: when receive gets an ackno that strictly advances ack_seqno, on
\* return RTO = initial_RTO, retrans_count = 0 and the elapsed time is 0.
C10_NewAckResetsTimer ==
    [][(last_call'.op = "receive"
        /\ sender'["A"].ack_seqno > sender["A"].ack_seqno)
       => TimerState(sender'["A"]) = <<sender["A"].initial_RTO, 0, 0>>]_vars

\* C11: over any run of push, receive and tick the sender's count of
\* consecutive retransmissions never exceeds MAX_RETX_ATTEMPTS + 1
C11_RetransmissionsBounded ==
    \A e \in Endpoints : sender[e].retrans_count <= MAX_RETX_ATTEMPTS + 1

\* C13: when push returns, the outbound stream holds no buffered byte, or
\* the window is full (next_seqno = ack_seqno + max(window_size, 1)), or a
\* FIN has been sent
C13_PushFillsWindow ==
    (last_call.op = "push" /\ ~last_call.raised)
    => \/ bytes_buffered(outbound_stream["A"]) = 0
       \/ sender["A"].next_seqno
             = sender["A"].ack_seqno + Max(sender["A"].window_size, 1)
       \/ sender["A"].fin_sent

\* C14: no call of push, receive or tick makes ack_seqno or next_seqno of
\* the sender smaller
C14_SeqnosNeverDecrease ==
    [][/\ sender'["A"].ack_seqno >= sender["A"].ack_seqno
       /\ sender'["A"].next_seqno >= sender["A"].next_seqno]_vars

\* ------------------------------------------------------------------------
\* Properties of the receiver half
\* ------------------------------------------------------------------------

\* C4: once a SYN has been received, no receive call (whatever the segment:
\* out of order, a duplicate, another SYN) and no read of the application
\* makes the absolute acknowledgment number that send() wraps smaller.
C4_AckNeverDecreases ==
    [][receiver["A"].syn_received
       => absolute_ackno(receiver'["A"], inbound_stream'["A"])
            >= absolute_ackno(receiver["A"], inbound_stream["A"])]_vars

C4_Witness ==
    /\ last_call.op = "read"
    /\ receiver["A"].syn_received /\ receiver["A"].fin_received
    /\ is_closed(inbound_stream["A"])
    /\ inbound_stream["A"].bytes_pushed >= 2
    /\ absolute_ackno(receiver["A"], inbound_stream["A"])
         = inbound_stream["A"].bytes_pushed + 2

\* C5: send() returns ackno None while no SYN has been received, and
\* afterwards wrap(bytes_pushed + 1 + fin_bit, isn), where fin_bit is 1
\* exactly when the peer's FIN has been accepted and the inbound stream
\* closed (the stream is closed only by an accepted FIN).
C5_AcknoAsSpecified ==
    LET r == receiver["A"]
        output == inbound_stream["A"]
        fin_bit == IF is_closed(output) THEN 1 ELSE 0
    IN  TCPReceiver_send(r, output).ackno
          = IF r.syn_received
            THEN Wrap32_wrap(output.bytes_pushed + 1 + fin_bit, r.isn)
            ELSE None

\* C6: send() advertises window_size = min(capacity - bytes_buffered, 65535)
\* for an inbound stream of any capacity, so the window lies in 0..65535.
C6_WindowAsSpecified ==
    LET output == inbound_stream["A"]
        window_size == TCPReceiver_send(receiver["A"], output).window_size
    IN  /\ window_size = Min(output.capacity - bytes_buffered(output), 65535)
        /\ window_size \in 0 .. 65535

\* ------------------------------------------------------------------------
\* Properties of the reassembler
\* ------------------------------------------------------------------------
\* the number of bytes of the pieces inserted
Covered == Cardinality(UNION {seg.index .. End(seg) - 1 : seg \in inserted})

\* the pieces inserted cover the stream up to the end of the last piece
Complete == \E last \in inserted : last.eof /\ Covered = End(last)

\* C15: once every piece of a stream of N <= capacity bytes has been
\* inserted, in whatever order and with no read in between, the output
\* stream holds the N bytes in index order, no byte is pending and the
\* stream is closed; it is not closed while a piece is missing
C15_AnyOrderAssembles ==
    IF Complete
    THEN /\ inbound_stream["B"].buffer = Segment(0, Covered)
         /\ unass_size(reassembler["B"]) = 0
         /\ is_closed(inbound_stream["B"])
    ELSE ~is_closed(inbound_stream["B"])

\* three pieces, the last one inserted first and the first one last
C15_Witness ==
    /\ Complete
    /\ Cardinality(inserted) = 3
    /\ last_call.op = "insert" /\ last_call.kind.index = 0
    /\ ~last_call.kind.eof

\* the end of the window of the reassembler: first_unassembled plus the
\* available capacity of the output stream
WindowEnd == reassembler["B"].unass_base + available_capacity(inbound_stream["B"])

\* C16: an insert sets the pending end of stream only if the segment is
\* marked as the last and its right edge is not beyond the end of the window
\* at the call, and the output stream is closed only with the end of stream
\* pending: a last segment beyond the window, or clipped by it, sets nothing
\* and closes nothing
C16_EofOnlyWhenItFits ==
    [][last_call'.op = "insert" =>
          /\ (reassembler'["B"].eof /\ ~reassembler["B"].eof)
             => (last_call'.kind.eof /\ End(last_call'.kind) <= WindowEnd)
          /\ (is_closed(inbound_stream'["B"]) /\ ~is_closed(inbound_stream["B"]))
             => reassembler'["B"].eof
      ]_vars

\* a last segment that begins inside the window and ends beyond it has been
\* inserted: its first bytes are assembled, no end of stream is pending
C16_Witness ==
    /\ last_call.op = "insert" /\ last_call.kind.eof
    /\ last_call.kind.index < WindowEnd /\ End(last_call.kind) > WindowEnd
    /\ reassembler["B"].unass_base > last_call.kind.index
    /\ ~reassembler["B"].eof /\ ~is_closed(inbound_stream["B"])

\* C17: an insert of the arguments of the insert just before it, with no
\* read in between, changes nothing: bytes_pushed, the bytes pending, the
\* buffered output, first_unassembled and the closed flag stay as they are
C17_SecondInsertChangesNothing ==
    [][(last_call'.op = "insert" /\ last_call'.kind.again) =>
          /\ inbound_stream'["B"].bytes_pushed = inbound_stream["B"].bytes_pushed
          /\ unass_size(reassembler'["B"]) = unass_size(reassembler["B"])
          /\ inbound_stream'["B"].buffer = inbound_stream["B"].buffer
          /\ reassembler'["B"].unass_base = reassembler["B"].unass_base
          /\ is_closed(inbound_stream'["B"]) = is_closed(inbound_stream["B"])
      ]_vars

\* a segment was inserted a second time while bytes are buffered in the
\* output and others are pending
C17_Witness ==
    /\ last_call.op = "insert" /\ last_call.kind.again
    /\ last_call.kind.len > 0
    /\ reassembler["B"].unass_base > last_call.kind.index
    /\ bytes_buffered(inbound_stream["B"]) > 0
    /\ unass_size(reassembler["B"]) > 0

\* C18: the bytes pending and the bytes buffered in the output never exceed
\* the capacity together: no byte is stored at or beyond the end of the
\* window, and the drain of an insert never pushes more than the output
\* stream accepts (its push fails only on a closed stream)
C18_HeldWithinCapacity ==
    /\ unass_size(reassembler["B"]) + bytes_buffered(inbound_stream["B"])
          <= inbound_stream["B"].capacity
    /\ \A o \in DOMAIN reassembler["B"].stored :
          reassembler["B"].unass_base + o < WindowEnd
    /\ (last_call.op = "insert" /\ last_call.raised)
          => is_closed(inbound_stream["B"])

\* after a read, a segment that reaches beyond the end of the window was
\* stored up to the last byte of the window behind a hole
C18_Witness ==
    /\ last_call.op = "insert"
    /\ last_call.kind.index > reassembler["B"].unass_base
    /\ last_call.kind.index < WindowEnd /\ End(last_call.kind) > WindowEnd
    /\ (WindowEnd - 1 - reassembler["B"].unass_base)
          \in DOMAIN reassembler["B"].stored
    /\ bytes_buffered(inbound_stream["B"]) > 0
    /\ inbound_stream["B"].bytes_popped > 0

\* ------------------------------------------------------------------------
\* Properties of two connections
\* ------------------------------------------------------------------------

\* C1: whatever the carrier drops, duplicates or reorders, the bytes pushed
\* into B's inbound stream are a prefix of the bytes written to A's outbound
\* stream: the i-th byte pushed is the i-th byte written (the byte i), so
\* every byte arrives at most once and in the order it was written.
C1_DeliveredIsPrefix ==
    LET st == inbound_stream["B"]
    IN  /\ st.bytes_pushed <= written["A"]
        /\ st.buffer = [j \in 1 .. Len(st.buffer) |-> st.bytes_popped + j]

C1_Witness ==
    /\ last_call = Call("receive", "B", "", FALSE)
    /\ inbound_stream["B"].bytes_pushed >= 2
    /\ inbound_stream["B"].bytes_popped >= 1
    /\ inbound_stream["B"].buffer # <<>>
    /\ Cardinality(network["B"]) >= 3

\* every byte A's application wrote is in B's inbound stream, which is
\* closed if A sent its FIN, and A has nothing outstanding
AllDelivered ==
    /\ inbound_stream["B"].bytes_pushed >= written["A"]
    /\ sender["A"].fin_sent => is_closed(inbound_stream["B"])
    /\ sender["A"].outstanding_data = <<>>

\* C2: under weak fairness of tick, of delivery and of B's reads, and with
\* fewer losses in a row than retransmissions, there comes a time from which
\* on every byte written to A's outbound stream has been pushed into B's
\* inbound stream, B's inbound stream is closed if A has sent its FIN, and
\* A's outstanding queue is empty.
C2_EventuallyDelivered == <>[]AllDelivered


\* the reply of connection e to a segment that made it push nothing: the
\* empty segment at its next sequence number with the ackno and the window
\* of its receiver
EmptyReply(e) ==
    TCPMessage(make_empty_message(sender[e], outbound_stream[e]),
               TCPReceiver_send(receiver[e], inbound_stream[e]))

\* C19: receive of a message that occupies sequence numbers, or of a
\* keep-alive, transmits at least one message before it returns, and when
\* the sender pushes nothing new the reply is one message: the empty
\* segment with the receiver's current ackno and window
C19_ReceiveReplies ==
    \A e \in Endpoints :
        (/\ last_call.op = "receive" /\ last_call.endpoint = e
         /\ last_call.kind = "reply")
        => /\ transmitted # <<>>
           /\ (\A i \in DOMAIN transmitted :
                   squence_length(transmitted[i].sender_message) = 0)
              => transmitted = <<EmptyReply(e)>>

\* C12: the tick of a connection that makes the sender's consecutive
\* retransmissions exceed MAX_RETX_ATTEMPTS transmits a segment with RST and
\* leaves the connection failed, and no later call makes a failed
\* connection active again
C12_RetxLimitFailsConnection ==
    [][\A e \in Endpoints :
          /\ (/\ last_call'.op = "tick" /\ last_call'.endpoint = e
              /\ sender[e].retrans_count <= MAX_RETX_ATTEMPTS
              /\ sender'[e].retrans_count > MAX_RETX_ATTEMPTS)
             => /\ \E i \in DOMAIN transmitted' :
                       \/ transmitted'[i].sender_message.RST
                       \/ transmitted'[i].receiver_message.RST
                /\ ~TCPConnection_active(Conn(e))'
          /\ ~TCPConnection_active(Conn(e)) => ~TCPConnection_active(Conn(e))'
      ]_vars

\* the datagram that the carrier hands e in this step
Taken(e) == network[e] \ network'[e]

\* the one message of this step, when the step transmits one message
Only == transmitted'[1]

C21_CallsSerialized == ~(LoopInside /\ AppInside)

\* C22: a recv that found the inbound stream empty returns once a segment
\* has put a byte into the stream
C22_RecvReturns ==
    (socket.app = "wait" /\ bytes_buffered(inbound_stream[Sock]) > 0)
    ~> (socket.app = "idle")

\* ------------------------------------------------------------------------
\* A ByteStream alone on its RingBuffer, called by a writer and a reader
\* ------------------------------------------------------------------------
StreamCalled(op, st, pushed, popped, n, data, raised) ==
    /\ ring_stream' = [stream |-> st, pushed |-> pushed, popped |-> popped,
                       n |-> n, data |-> data]
    /\ last_call' = Call(op, "A", "", raised)
    /\ UNCHANGED <<senderVars, receiverVars, connVars, transmitted,
                   socketVars, wrap32, codec>>

\* the i-th byte pushed is i
StreamPush(n) ==
    /\ ring_stream.stream.bytes_pushed + n <= MaxStreamed
    /\ \E data \in {Bytes(ring_stream.stream.bytes_pushed, n)} :
          \E r \in {RingStream_push(ring_stream.stream, data)} :
              StreamCalled("push", r.stream,
                           IF r.raised THEN ring_stream.pushed
                           ELSE ring_stream.pushed \o data,
                           ring_stream.popped, n, <<>>, r.raised)

StreamPop(n) ==
    \E r \in {RingStream_pop(ring_stream.stream, n)} :
        StreamCalled("pop", r.stream, ring_stream.pushed,
                     ring_stream.popped \o r.data, n, r.data, r.raised)

StreamPeek(n) ==
    \E r \in {RingStream_peek(ring_stream.stream, n)} :
        StreamCalled("peek", ring_stream.stream, ring_stream.pushed,
                     ring_stream.popped, n, r.data, r.raised)

StreamClose ==
    StreamCalled("close", RingStream_close(ring_stream.stream),
                 ring_stream.pushed, ring_stream.popped, 0, <<>>, FALSE)

StreamInit ==
    \E isn \in ISNs, rto \in InitialRTOs, capacity \in Capacities,
       c \in 1 .. MaxRing :
        /\ EndpointsConstructed([e \in Endpoints |-> isn], rto, capacity)
        /\ UnitsConstructed(c, Wrapped(0, 0, 0), Encoding(Defaults))

StreamNext ==
    \/ \E n \in 0 .. MaxRing + 1 : StreamPush(n)
    \/ \E n \in 0 .. MaxRing + 1 : StreamPop(n)
    \/ \E n \in 0 .. MaxRing + 1 : StreamPeek(n)
    \/ StreamClose

StreamSpec == StreamInit /\ [][StreamNext]_vars

\* C23: whatever calls a ByteStream has seen, failed ones included, the
\* bytes pushed are the bytes popped plus the bytes buffered, and the bytes
\* buffered are between 0 and the capacity given at construction
C23_StreamCounts ==
    /\ ring_stream.stream.bytes_pushed
          = ring_stream.stream.bytes_popped + ring_buffered(ring_stream.stream)
    /\ 0 <= ring_buffered(ring_stream.stream)
    /\ ring_buffered(ring_stream.stream) <= ring_stream.stream.capacity

\* a stream whose capacity is below the size of its ring is full after a
\* pop, and the last call failed
C23_Witness ==
    /\ ring_stream.stream.capacity < ring_stream.stream.buffer.size
    /\ ring_buffered(ring_stream.stream) = ring_stream.stream.capacity
    /\ ring_stream.stream.bytes_popped > 0
    /\ last_call.raised

\* C24: the bytes returned by the pops so far, in order, are a prefix of
\* the bytes pushed so far, in order, also when a write or a read of the
\* ring goes round the end of its storage
C24_PoppedIsPrefix ==
    /\ Len(ring_stream.popped) <= Len(ring_stream.pushed)
    /\ ring_stream.popped
          = SubSeq(ring_stream.pushed, 1, Len(ring_stream.popped))

\* the last pop read round the end of the storage
C24_Witness ==
    /\ last_call.op = "pop"
    /\ Len(ring_stream.data) >= 2
    /\ ring_stream.stream.buffer.out_ptr - Len(ring_stream.data)
          < ring_stream.stream.buffer.size
    /\ ring_stream.stream.buffer.out_ptr > ring_stream.stream.buffer.size

\* C25: peek(n) and pop(n) never fail, whatever the state of the stream:
\* they return min(n, bytes buffered) bytes, peek changes nothing and pop
\* adds the number of bytes it returned to bytes_popped
C25_ReadersNeverFail ==
    [][last_call'.op \in {"peek", "pop"} =>
          /\ ~last_call'.raised
          /\ Len(ring_stream'.data)
                = Min(ring_stream'.n, ring_buffered(ring_stream.stream))
          /\ last_call'.op = "peek" =>
                ring_stream'.stream = ring_stream.stream
          /\ last_call'.op = "pop" =>
                ring_stream'.stream.bytes_popped
                   = ring_stream.stream.bytes_popped + Len(ring_stream'.data)
      ]_vars

\* ------------------------------------------------------------------------
\* Wrap32 alone: wrap and unwrap applied to given values
\* ------------------------------------------------------------------------
Checkpoints == 0 .. MaxLaps * Modulus - 1

WrapCalled(w) ==
    /\ wrap32' = w
    /\ UNCHANGED <<senderVars, receiverVars, connVars, transmitted,
                   last_call, socketVars, ring_stream, codec>>

\* self.unwrap(zero_point, checkpoint), of the given value or of what wrap
\* returned
Unwrap ==
    /\ wrap32.op \in {<<>>, <<"wrap">>}
    /\ WrapCalled([wrap32 EXCEPT
                      !.absolute = Wrap32_unwrap(wrap32.raw_value,
                                                 wrap32.zero_point,
                                                 wrap32.checkpoint),
                      !.op = Append(@, "unwrap")])

\* Wrap32.wrap(n, zero_point), n the checkpoint or what unwrap returned
Wrap ==
    /\ wrap32.op \in {<<>>, <<"unwrap">>}
    /\ WrapCalled([wrap32 EXCEPT
                      !.raw_value =
                          Wrap32_wrap(IF wrap32.op = <<>>
                                      THEN wrap32.checkpoint
                                      ELSE wrap32.absolute,
                                      wrap32.zero_point),
                      !.op = Append(@, "wrap")])

WrapInit ==
    \E isn \in ISNs, rto \in InitialRTOs, capacity \in Capacities,
       w \in 0 .. Modulus - 1, z \in 0 .. Modulus - 1, c \in Checkpoints :
        /\ EndpointsConstructed([e \in Endpoints |-> isn], rto, capacity)
        /\ UnitsConstructed(MaxRing, Wrapped(w, z, c), Encoding(Defaults))

WrapNext == Unwrap \/ Wrap

WrapSpec == WrapInit /\ [][WrapNext]_vars

\* C26: wrap undoes unwrap and unwrap, with the wrapped number as its
\* checkpoint, undoes wrap
C26_WrapUnwrapInverse ==
    /\ wrap32.op = <<"unwrap", "wrap">> => wrap32.raw_value = wrap32.given
    /\ wrap32.op = <<"wrap", "unwrap">> => wrap32.absolute = wrap32.checkpoint

\* a number beyond the first lap was wrapped past the end of the wire
\* numbers and unwrapped again
C26_Witness ==
    /\ wrap32.op = <<"wrap", "unwrap">>
    /\ wrap32.checkpoint >= Modulus
    /\ wrap32.raw_value < wrap32.zero_point

\* the distance of a from the checkpoint c
Distance(a, c) == IF a >= c THEN a - c ELSE c - a

\* C27: unwrap(w, z, c) is the number a >= 0 with a = w - z modulo 2^32
\* that is closest to c, the smaller one of two at the same distance
C27_ClosestToCheckpoint ==
    wrap32.op = <<"unwrap">> =>
        /\ wrap32.absolute >= 0
        /\ Wrap32_wrap(wrap32.absolute, wrap32.zero_point) = wrap32.raw_value
        /\ \A b \in 0 .. (MaxLaps + 1) * Modulus :
              Wrap32_wrap(b, wrap32.zero_point) = wrap32.raw_value =>
                  \/ Distance(wrap32.absolute, wrap32.checkpoint)
                        < Distance(b, wrap32.checkpoint)
                  \/ /\ Distance(wrap32.absolute, wrap32.checkpoint)
                           = Distance(b, wrap32.checkpoint)
                     /\ wrap32.absolute <= b

\* ------------------------------------------------------------------------
\* The adapter's serialization alone: a message is serialized and the
\* datagram deserialized
\* ------------------------------------------------------------------------
\* messages with a seqno, a payload and a window that fit their header
\* fields
CodecMessages ==
    {TCPMessage(sm, rm) :
        sm \in [seqno : 0 .. Modulus - 1,
                payload : {Bytes(0, n) : n \in 0 .. MaxPayload},
                SYN : BOOLEAN, FIN : BOOLEAN, RST : BOOLEAN],
        rm \in [ackno : {None} \cup (0 .. Modulus - 1),
                window_size : {0, MaxWindow, 65535},
                RST : BOOLEAN]}

CodecCalled(c) ==
    /\ codec' = c
    /\ UNCHANGED <<senderVars, receiverVars, connVars, transmitted,
                   last_call, socketVars, ring_stream, wrap32>>

Serialize ==
    /\ codec.data = <<>>
    /\ Serialisable(codec.message)
    /\ CodecCalled([codec EXCEPT
                       !.data = <<serialize_tcp_message(codec.message)>>])

Deserialize ==
    /\ codec.data # <<>>
    /\ codec.decoded = <<>>
    /\ CodecCalled([codec EXCEPT
                       !.decoded = <<deserialize_tcp_message(codec.data[1])>>])

CodecInit ==
    \E isn \in ISNs, rto \in InitialRTOs, capacity \in Capacities,
       message \in CodecMessages :
        /\ EndpointsConstructed([e \in Endpoints |-> isn], rto, capacity)
        /\ UnitsConstructed(MaxRing, Wrapped(0, 0, 0), Encoding(message))

CodecNext == Serialize \/ Deserialize

CodecSpec == CodecInit /\ [][CodecNext]_vars

\* C28: what deserialize_tcp_message makes of the datagram of a message
\* is that message, field by field, an ackno of any value included
C28_RoundTrip ==
    codec.decoded # <<>> => codec.decoded[1] = codec.message

\* ------------------------------------------------------------------------
\* Properties of the segments and of the queue of the sender half
\* ------------------------------------------------------------------------
\* the sequence numbers the segments of sent occupy, and their payloads
\* one after the other
RECURSIVE Occupied(_)
Occupied(sent) ==
    IF sent = <<>> THEN 0
    ELSE squence_length(Head(sent)) + Occupied(Tail(sent))

RECURSIVE Payloads(_)
Payloads(sent) ==
    IF sent = <<>> THEN <<>> ELSE Head(sent).payload \o Payloads(Tail(sent))

\* C29: the first segment a push transmits has seqno wrap(next_seqno, isn)
\* and carries SYN if next_seqno was 0, each further one starts where the
\* one before it ended, next_seqno advances by the sequence numbers the
\* segments occupy, and their payloads are the bytes popped from the stream
C29_PushAdvances ==
    [][(last_call'.op = "push" /\ ~last_call'.raised /\ transmitted' # <<>>)
          =>
          /\ transmitted'[1].seqno
                = Wrap32_wrap(sender["A"].next_seqno, sender["A"].isn)
          /\ sender["A"].next_seqno = 0 => transmitted'[1].SYN
          /\ \A i \in 1 .. Len(transmitted') - 1 :
                transmitted'[i + 1].seqno
                   = Wrap32_add(transmitted'[i].seqno,
                                squence_length(transmitted'[i]))
          /\ sender'["A"].next_seqno
                = sender["A"].next_seqno + Occupied(transmitted')
          /\ Payloads(transmitted')
                = SubSeq(outbound_stream["A"].buffer, 1,
                         outbound_stream'["A"].bytes_popped
                            - outbound_stream["A"].bytes_popped)
      ]_vars

\* the segments of q whose right edge, absolute seqno plus sequence
\* length, is above ack_seqno, in their order
Uncovered(q, isn, ack_seqno) ==
    LET Partly(segment) ==
            Wrap32_unwrap(segment.seqno, isn, ack_seqno)
               + squence_length(segment) > ack_seqno
    IN  SelectSeq(q, Partly)

\* C30: a receive that advances ack_seqno leaves in the outstanding queue
\* the segments whose right edge is above the new ack_seqno, in their
\* order, and no others; a timeout retransmits the first of the queue
C30_AckPopsCovered ==
    [][/\ (last_call'.op = "receive"
            /\ sender'["A"].ack_seqno > sender["A"].ack_seqno)
          => sender'["A"].outstanding_data
                = Uncovered(sender["A"].outstanding_data, sender["A"].isn,
                            sender'["A"].ack_seqno)
       /\ (last_call'.op = "tick" /\ transmitted' # <<>>)
          => transmitted' = <<Head(sender["A"].outstanding_data)>>
      ]_vars

\* the absolute seqno of an outstanding segment of sender s
AbsoluteSeqno(s, segment) == Wrap32_unwrap(segment.seqno, s.isn, s.ack_seqno)

\* C31: the outstanding queue is ordered by absolute seqno, each segment
\* begins where the one before it ends, the first begins at ack_seqno and
\* the last ends at next_seqno; the queue is empty exactly when ack_seqno
\* is next_seqno
C31_QueueCoversFlight ==
    LET s == sender["A"]
        q == sender["A"].outstanding_data
    IN  /\ \A i \in 1 .. Len(q) - 1 :
              AbsoluteSeqno(s, q[i]) + squence_length(q[i])
                 = AbsoluteSeqno(s, q[i + 1])
        /\ q # <<>> =>
              /\ AbsoluteSeqno(s, q[1]) = s.ack_seqno
              /\ AbsoluteSeqno(s, q[Len(q)]) + squence_length(q[Len(q)])
                    = s.next_seqno
        /\ q = <<>> <=> s.ack_seqno = s.next_seqno

\* C32: a segment that push transmits with FIN leaves the outbound stream
\* finished, FIN was not sent before, the sequence numbers of the segment,
\* its FIN included, end inside the window, and no other segment of the
\* push carries FIN
C32_FinWhenItFits ==
    [][(last_call'.op = "push" /\ ~last_call'.raised)
          => \A i \in 1 .. Len(transmitted') :
                transmitted'[i].FIN =>
                    /\ is_finished(outbound_stream'["A"])
                    /\ ~sender["A"].fin_sent
                    /\ Wrap32_unwrap(transmitted'[i].seqno, sender["A"].isn,
                                     sender["A"].next_seqno)
                          + squence_length(transmitted'[i])
                          <= sender["A"].ack_seqno + sender["A"].window_size
                    /\ \A j \in 1 .. Len(transmitted') :
                          transmitted'[j].FIN => j = i
      ]_vars

\* C33: after receive(message) the window of the sender is the window the
\* message advertises, 1 if it advertises 0, whether that is more or less
\* than before and whether or not the message has an ackno
C33_WindowIsAdvertised ==
    [][\A message \in ReceiverMessages :
          (SenderReceive("A", message) /\ ~last_call'.raised)
             => sender'["A"].window_size = Max(message.window_size, 1)
      ]_vars

\* C34: a timeout while the last window the peer advertised was 0
\* retransmits the first outstanding segment, adds 1 to retrans_count,
\* zeroes the elapsed time and leaves RTO as it was
C34_ProbeWithoutBackoff ==
    [][(last_call'.op = "tick" /\ last_call'.kind = "timeout"
        /\ sender["A"].recv_zero_window_size)
          => /\ transmitted' = <<Head(sender["A"].outstanding_data)>>
             /\ sender'["A"].retrans_count = sender["A"].retrans_count + 1
             /\ sender'["A"].last_sent_time = 0
             /\ sender'["A"].RTO = sender["A"].RTO
      ]_vars

\* C35: receive of a message whose ackno is not above ack_seqno leaves
\* ack_seqno, next_seqno, the outstanding queue and the timer state as they
\* were and transmits nothing
C35_OldAckChangesNothing ==
    [][\A message \in ReceiverMessages :
          (/\ SenderReceive("A", message)
           /\ ~message.RST
           /\ message.ackno # None
           /\ Wrap32_unwrap(message.ackno, sender["A"].isn,
                            sender["A"].ack_seqno) <= sender["A"].ack_seqno)
             => /\ sender'["A"].ack_seqno = sender["A"].ack_seqno
                /\ sender'["A"].next_seqno = sender["A"].next_seqno
                /\ sender'["A"].outstanding_data
                      = sender["A"].outstanding_data
                /\ TimerState(sender'["A"]) = TimerState(sender["A"])
                /\ transmitted' = <<>>
      ]_vars

\* the sequence numbers sender s has sent so far: its SYN, which went out
\* with the segment that moved next_seqno from 0 (syn_sent is also set by
\* a push that raised before it transmitted), the bytes it took from the
\* stream st and its FIN
SequenceNumbersSent(s, st) ==
    (IF s.next_seqno > 0 THEN 1 ELSE 0) + st.bytes_popped
       + (IF s.fin_sent THEN 1 ELSE 0)

\* C36: make_empty_message returns a segment without SYN, FIN and payload
\* whose seqno is wrap(n, isn), n the sequence numbers sent so far, and
\* min(next_seqno, fin_seqno) is n
C36_EmptyMessageAtEnd ==
    LET s == sender["A"]
        st == outbound_stream["A"]
    IN  /\ ~make_empty_message(s, st).SYN
        /\ ~make_empty_message(s, st).FIN
        /\ make_empty_message(s, st).payload = <<>>
        /\ make_empty_message(s, st).seqno
              = Wrap32_wrap(SequenceNumbersSent(s, st), s.isn)
        /\ Min(s.next_seqno, s.fin_seqno) = SequenceNumbersSent(s, st)

\* ------------------------------------------------------------------------
\* Properties of the receiver half for segments with RST, at sequence
\* number 0, and with SYN, payload and FIN together
\* ------------------------------------------------------------------------

\* C37: receive of a segment with RST returns normally, leaves isn,
\* syn_received, fin_received, the reassembler and the content and the
\* closed flag of the inbound stream as they were, and makes send report
\* RST
C37_RstOnlySetsError ==
    [][\A message \in PeerMessages :
          (ReceiverReceive("A", message) /\ message.RST)
             => /\ ~last_call'.raised
                /\ receiver'["A"] = receiver["A"]
                /\ reassembler'["A"] = reassembler["A"]
                /\ inbound_stream'["A"].buffer = inbound_stream["A"].buffer
                /\ inbound_stream'["A"].closed = inbound_stream["A"].closed
                /\ TCPReceiver_send(receiver'["A"], inbound_stream'["A"]).RST
      ]_vars

\* The receiver half driven by a peer that has one ISN: all its SYNs carry
\* it
PeerISN == Modulus - 1

OnePeerMessages == {m \in PeerMessages : m.SYN => m.seqno = PeerISN}

OnePeerNext ==
    \/ \E message \in OnePeerMessages :
            ReceiverReceiveAs("A", message, message)
    \/ \E n \in 1 .. MaxPayload : AppRead("A", n)

OnePeerSpec == ReceiverInit /\ [][OnePeerNext]_vars

\* C38: the byte of the inbound stream at stream index i travelled at
\* absolute sequence number i + 1, that is at the wire sequence number
\* isn + 1 + i, which is its label
C38_BytesAtTheirIndex ==
    LET st == inbound_stream["A"]
    IN  \A k \in 1 .. Len(st.buffer) :
            st.buffer[k] = Wrap32_wrap(st.bytes_popped + k, PeerISN)

\* a segment without SYN whose seqno is the ISN arrived after the SYN with
\* two bytes of payload, and the second of them is the first byte of the
\* stream
C38_Witness ==
    /\ last_call.op = "receive" /\ ~last_call.raised
    /\ ~last_call.kind.SYN /\ last_call.kind.seqno = PeerISN
    /\ Len(last_call.kind.payload) = 2
    /\ receiver["A"].isn = PeerISN
    /\ inbound_stream["A"].bytes_pushed = 1
    /\ inbound_stream["A"].buffer = <<last_call.kind.payload[2]>>

\* C39: receive of a first segment with SYN, FIN and a payload that fits
\* the window returns normally with the whole payload in the inbound
\* stream, the stream closed, and send acknowledging SYN, payload and FIN
C39_SynPayloadFin ==
    [][\A message \in PeerMessages :
          (/\ ReceiverReceive("A", message)
           /\ ~receiver["A"].syn_received
           /\ inbound_stream["A"].bytes_pushed = 0
           /\ message.SYN /\ message.FIN /\ ~message.RST
           /\ Len(message.payload) > 0
           /\ Len(message.payload) <= available_capacity(inbound_stream["A"]))
             => /\ ~last_call'.raised
                /\ inbound_stream'["A"].buffer = message.payload
                /\ is_closed(inbound_stream'["A"])
                /\ receiver'["A"].fin_received
                /\ TCPReceiver_send(receiver'["A"],
                                    inbound_stream'["A"]).ackno
                      = Wrap32_wrap(1 + Len(message.payload) + 1,
                                    message.seqno)
      ]_vars

\* ------------------------------------------------------------------------
\* Properties of a connection that receives a bare acknowledgment
\* ------------------------------------------------------------------------

\* C40: receive of a message that occupies no sequence number and is not a
\* keep-alive, when the sender transmits no segment that occupies sequence
\* numbers, transmits nothing and leaves need_send false
C40_BareAckIsNotAnswered ==
    [][\A e \in Endpoints :
          (/\ last_call'.op = "receive" /\ last_call'.endpoint = e
           /\ last_call'.kind = ""
           /\ \A i \in DOMAIN transmitted' :
                  squence_length(transmitted'[i].sender_message) = 0)
             => transmitted' = <<>> /\ ~need_send'[e]
      ]_vars

\* both connections have received the SYN of the other and its
\* acknowledgment of their own, and neither has a byte to send or a segment
\* outstanding
EstablishedIdle ==
    \A e \in Endpoints :
        /\ receiver[e].syn_received
        /\ sender[e].ack_seqno >= 1
        /\ sender[e].outstanding_data = <<>>
        /\ bytes_buffered(outbound_stream[e]) = 0

NoDatagramInFlight == \A e \in Endpoints : network[e] = {}

\* under the fairness of FairSpec an idle pair comes to a state with no
\* datagram in flight
IdlePairGoesQuiet == EstablishedIdle ~> NoDatagramInFlight

====
